---- MODULE Spec2Model ----
(***************************************************************************)
(* VitalFi backend: the Helius webhook ingestion path (decode, reconcile   *)
(* against the cached record, update the Redis indices, create activity    *)
(* records) and the cursor-paginated list queries that read those indices. *)
(*                                                                         *)
(* The Redis store is one record-valued variable so that the handler can   *)
(* be written as operators from a store to the sequence of Redis commands  *)
(* it issues.  Amounts are u64/u128 decimal strings in the code; they are  *)
(* naturals here (BigInt arithmetic is exact).  ISO timestamps are modelled*)
(* by the epoch second they format.                                        *)
(***************************************************************************)
EXTENDS Integers, Sequences, FiniteSets, TLC

(***************************************************************************)
(* Bounds and input sets.                                                  *)
(***************************************************************************)
MaxIngest == 2

\* null / undefined, one per kind of value so that sets stay homogeneous.
Null == [isNull |-> TRUE]    \* in place of a record or an account info
NullStr == "null"            \* in place of a string
NullNum == -1                \* in place of a number, an amount or an address

\* Account addresses.  Base58 strings in the code; naturals here so that the
\* lexicographic tie-break of a Redis sorted set has an order to use.
VaultPdas == {1, 2, 3}
PositionPdas == {11, 12, 13}
OtherPdas == {21}

Authorities == {"A1"}
Owners == {"O1"}

\* The vault PDA is derived from (authority, vault_id) and the position PDA
\* from (vault, owner) by the on-chain program, so the decoded authority,
\* vault and owner of an address never change.
AuthorityOf(vaultPda) == "A1"
OwnerOf(positionPda) == "O1"
VaultOf(positionPda) == positionPda - 10

Statuses == {"Funding", "Active", "Matured", "Canceled", "Closed"}
Signatures == {"sigA", "sigB"}
Slots == {1, 2}
\* What Math.floor(Date.now() / 1000) may return to an invocation.
Times == {2, 3}

ProgramId == "program"

(***************************************************************************)
(* Redis sorted sets: a set of (member, score) entries, one per member.    *)
(***************************************************************************)
ZAddTo(z, score, member) ==
    {e \in z : e.member # member} \cup {[member |-> member, score |-> score]}

ZRemFrom(z, member) == {e \in z : e.member # member}

ZMembers(z) == {e.member : e \in z}

(***************************************************************************)
(* Key helpers.  A key is a pair (family, id); the store keeps one map per *)
(* family.                                                                 *)
(***************************************************************************)
kVaultJson(pda) == [fam |-> "vaultJson", id |-> pda]
kVaultsSet == [fam |-> "vaultsSet", id |-> NullStr]
kAuthorityVaults(authority) == [fam |-> "authorityVaults", id |-> authority]
kPositionJson(pda) == [fam |-> "positionJson", id |-> pda]
kOwnerPositions(owner) == [fam |-> "ownerPositions", id |-> owner]
kVaultActivity(vaultPda) == [fam |-> "zVaultActivity", id |-> vaultPda]
kOwnerActivity(owner) == [fam |-> "zOwnerActivity", id |-> owner]
kActivity(txSig, type, slot) == [fam |-> "activity", id |-> <<txSig, type, slot>>]
\* by_updated sorted sets: one for all vaults of an authority ("all") and one
\* per status.
kAuthorityVaultsByUpdated(authority, status) ==
    [fam |-> "zAuthorityVaults", id |-> <<authority, status>>]
kOwnerPositionsByUpdated(owner) == [fam |-> "zOwnerPositions", id |-> owner]

StatusKeys == Statuses \cup {"all"}

EmptyStore ==
    [vaultJson        |-> [p \in VaultPdas |-> Null],
     positionJson     |-> [p \in PositionPdas |-> Null],
     activity         |-> [k \in {} |-> Null],
     vaultsSet        |-> {},
     authorityVaults  |-> [a \in Authorities |-> {}],
     ownerPositions   |-> [o \in Owners |-> {}],
     zAuthorityVaults |-> [k \in Authorities \X StatusKeys |-> {}],
     zOwnerPositions  |-> [o \in Owners |-> {}],
     zVaultActivity   |-> [p \in VaultPdas |-> {}],
     zOwnerActivity   |-> [o \in Owners |-> {}]]

\* getJSON: the stored value, or null when the key does not exist.
getJSON(st, key) ==
    CASE key.fam = "vaultJson" ->
           IF key.id \in DOMAIN st.vaultJson THEN st.vaultJson[key.id] ELSE Null
      [] key.fam = "positionJson" ->
           IF key.id \in DOMAIN st.positionJson THEN st.positionJson[key.id] ELSE Null
      [] key.fam = "activity" ->
           IF key.id \in DOMAIN st.activity THEN st.activity[key.id] ELSE Null

(***************************************************************************)
(* Redis commands.  ApplyCmd is the effect of one command; a "multi" is a  *)
(* MULTI/EXEC batch, applied as one step.                                  *)
(***************************************************************************)
CmdSet(key, value) == [type |-> "set", key |-> key, value |-> value]
CmdSetNX(key, value) == [type |-> "setnx", key |-> key, value |-> value]
CmdSAdd(key, member) == [type |-> "sadd", key |-> key, member |-> member]
CmdZAdd(key, score, member) ==
    [type |-> "zadd", key |-> key, score |-> score, member |-> member]
CmdZRem(key, member) == [type |-> "zrem", key |-> key, member |-> member]
CmdMulti(cmds) == [type |-> "multi", cmds |-> cmds]

SetString(st, key, value) ==
    CASE key.fam = "vaultJson" ->
           [st EXCEPT !.vaultJson[key.id] = value]
      [] key.fam = "positionJson" ->
           [st EXCEPT !.positionJson[key.id] = value]
      [] key.fam = "activity" ->
           [st EXCEPT !.activity =
               [k \in (DOMAIN st.activity) \cup {key.id} |->
                   IF k = key.id THEN value ELSE st.activity[k]]]

\* SET key value NX: writes only when the key does not exist.
SetNXPlain(st, key, value) == SetString(st, key, value)

SetNX(st, key, value) ==
    IF getJSON(st, key) = Null THEN SetString(st, key, value) ELSE st

ApplySimple(st, c) ==
    CASE c.type = "set" -> SetString(st, c.key, c.value)
      [] c.type = "setnx" -> SetNX(st, c.key, c.value)
      [] c.type = "sadd" ->
           (CASE c.key.fam = "vaultsSet" ->
                   [st EXCEPT !.vaultsSet = @ \cup {c.member}]
              [] c.key.fam = "authorityVaults" ->
                   [st EXCEPT !.authorityVaults[c.key.id] = @ \cup {c.member}]
              [] c.key.fam = "ownerPositions" ->
                   [st EXCEPT !.ownerPositions[c.key.id] = @ \cup {c.member}])
      [] c.type = "zadd" ->
           (CASE c.key.fam = "zAuthorityVaults" ->
                   [st EXCEPT !.zAuthorityVaults[c.key.id] = ZAddTo(@, c.score, c.member)]
              [] c.key.fam = "zOwnerPositions" ->
                   [st EXCEPT !.zOwnerPositions[c.key.id] = ZAddTo(@, c.score, c.member)]
              [] c.key.fam = "zVaultActivity" ->
                   [st EXCEPT !.zVaultActivity[c.key.id] = ZAddTo(@, c.score, c.member)]
              [] c.key.fam = "zOwnerActivity" ->
                   [st EXCEPT !.zOwnerActivity[c.key.id] = ZAddTo(@, c.score, c.member)])
      [] c.type = "zrem" ->
           (CASE c.key.fam = "zAuthorityVaults" ->
                   [st EXCEPT !.zAuthorityVaults[c.key.id] = ZRemFrom(@, c.member)])

RECURSIVE ApplySimples(_, _)
ApplySimples(st, cmds) ==
    IF cmds = <<>> THEN st
    ELSE ApplySimples(ApplySimple(st, Head(cmds)), Tail(cmds))

ApplyCmd(st, c) ==
    IF c.type = "multi" THEN ApplySimples(st, c.cmds) ELSE ApplySimple(st, c)

RECURSIVE ApplyCmds(_, _)
ApplyCmds(st, cmds) ==
    IF cmds = <<>> THEN st
    ELSE ApplyCmds(ApplyCmd(st, Head(cmds)), Tail(cmds))

(***************************************************************************)
(* Log parsing and account decoding.                                       *)
(***************************************************************************)
\* The instruction names the log patterns recognise, in pattern order.
LogPatterns ==
    [deposit         |-> "Instruction: Deposit",
     claim           |-> "Instruction: Claim",
     finalizeFunding |-> "Instruction: FinalizeFunding",
     matureVault     |-> "Instruction: MatureVault",
     initializeVault |-> "Instruction: InitializeVault",
     closeVault      |-> "Instruction: CloseVault"]

\* One action per (log line, matching pattern), in log order.
RECURSIVE extractActionsFromLogs(_)
extractActionsFromLogs(logs) ==
    IF logs = <<>> THEN <<>>
    ELSE LET hit == {a \in DOMAIN LogPatterns : LogPatterns[a] = Head(logs)}
         IN (IF hit = {} THEN <<>> ELSE <<CHOOSE a \in hit : TRUE>>)
            \o extractActionsFromLogs(Tail(logs))

Includes(seq, x) == \E i \in 1..Len(seq) : seq[i] = x

\* infos[k] is null or an account info; program accounts are owned by the
\* program, not executable, and carry data.
IsProgramAccount(info) ==
    /\ info # Null
    /\ info.owner = ProgramId
    /\ ~info.executable
    /\ info.hasData

filterProgramAccounts(accountKeys, infos) ==
    SelectSeq(accountKeys, LAMBDA k : IsProgramAccount(infos[k]))

\* A decoder that gives up at the first account that is neither.
RECURSIVE decodeAccountsUntilUnknown(_, _)
decodeAccountsUntilUnknown(keys, infos) ==
    IF keys = <<>> THEN <<>>
    ELSE LET info == infos[Head(keys)]
         IN IF info.layout = "Vault"
              THEN <<[type |-> "vault", pda |-> Head(keys), data |-> info.data]>>
                   \o decodeAccountsUntilUnknown(Tail(keys), infos)
            ELSE IF info.layout = "Position"
              THEN <<[type |-> "position", pda |-> Head(keys), data |-> info.data]>>
                   \o decodeAccountsUntilUnknown(Tail(keys), infos)
            ELSE <<>>

\* Vault is tried first, then Position; an account that is neither is dropped.
RECURSIVE decodeAccounts(_, _)
decodeAccounts(keys, infos) ==
    IF keys = <<>> THEN <<>>
    ELSE LET info == infos[Head(keys)]
             one == IF info.layout = "Vault"
                      THEN <<[type |-> "vault", pda |-> Head(keys), data |-> info.data]>>
                    ELSE IF info.layout = "Position"
                      THEN <<[type |-> "position", pda |-> Head(keys), data |-> info.data]>>
                    ELSE <<>>
         IN one \o decodeAccounts(Tail(keys), infos)

(***************************************************************************)
(* Normalizer.                                                             *)
(***************************************************************************)
\* JavaScript truthiness of a number-or-null.
Truthy(x) == x # NullNum /\ x # 0

mapVaultStatus(status) ==
    IF status \in Statuses THEN status ELSE "Funding"

toVaultDTO(pda, decoded, slot, blockTime, now) ==
    LET updatedAtEpoch == IF Truthy(blockTime) THEN blockTime ELSE now
    IN [vaultPda       |-> pda,
        authority      |-> decoded.authority,
        status         |-> mapVaultStatus(decoded.status),
        totalDeposited |-> decoded.total_deposited,
        totalClaimed   |-> decoded.total_claimed,
        payoutNum      |-> decoded.payout_num,
        payoutDen      |-> decoded.payout_den,
        slot           |-> slot,
        updatedAt      |-> updatedAtEpoch,
        updatedAtEpoch |-> updatedAtEpoch]

toPositionDTO(pda, decoded, slot, blockTime, now) ==
    LET updatedAtEpoch == IF Truthy(blockTime) THEN blockTime ELSE now
    IN [positionPda    |-> pda,
        vaultPda       |-> decoded.vault,
        owner          |-> decoded.owner,
        deposited      |-> decoded.deposited,
        claimed        |-> decoded.claimed,
        slot           |-> slot,
        updatedAt      |-> updatedAtEpoch,
        updatedAtEpoch |-> updatedAtEpoch]

ACTION_TYPE_MAP ==
    [initializeVault |-> "vault_created",
     deposit         |-> "deposit",
     claim           |-> "claim",
     finalizeFunding |-> "funding_finalized",
     matureVault     |-> "matured",
     authorityWithdraw |-> "authority_withdraw",
     closeVault      |-> "vault_closed"]

\* ctx fields are NullNum / NullStr where the code passes undefined.
toActivityDTO(action, ctx) ==
    LET activityType == IF action \in DOMAIN ACTION_TYPE_MAP
                          THEN ACTION_TYPE_MAP[action] ELSE "vault_created"
    IN [id             |-> <<ctx.txSig, activityType, ctx.slot>>,
        txSig          |-> ctx.txSig,
        slot           |-> ctx.slot,
        blockTime      |-> IF Truthy(ctx.blockTime) THEN ctx.blockTime ELSE NullNum,
        blockTimeEpoch |-> ctx.blockTime,
        type           |-> activityType,
        vaultPda       |-> ctx.vaultPda,
        positionPda    |-> ctx.positionPda,
        authority      |-> ctx.authority,
        owner          |-> ctx.owner,
        amount         |-> ctx.amount]

\* const score = activityDto.blockTimeEpoch || slot
ActivityScore(dto, slot) ==
    IF Truthy(dto.blockTimeEpoch) THEN dto.blockTimeEpoch ELSE slot

(***************************************************************************)
(* Webhook handler, one payload item.  An input is the item together with  *)
(* what the environment hands the invocation: the account infos the RPC    *)
(* returns and the wall-clock second.                                      *)
(*   in = [signature, slot, blockTime, accountKeys, logMessages, infos, now]*)
(* Each branch is an operator from the store the invocation reads to the   *)
(* sequence of Redis commands it issues, in issue order.                   *)
(***************************************************************************)
NullKeys(in) == SelectSeq(in.accountKeys, LAMBDA k : in.infos[k] = Null)

\* closeVault branch, one candidate key.
CloseVaultCmds(st, vaultPda, in) ==
    LET existing == getJSON(st, kVaultJson(vaultPda))
    IN IF existing # Null /\ existing.status \in {"Canceled", "Matured"}
       THEN LET closedVault ==
                    [existing EXCEPT
                       !.status = "Closed",
                       !.slot = in.slot,
                       !.updatedAt = IF Truthy(in.blockTime) THEN in.blockTime ELSE in.now,
                       !.updatedAtEpoch = IF in.blockTime # NullNum THEN in.blockTime ELSE in.now]
                activityDto ==
                    toActivityDTO("closeVault",
                       [txSig |-> in.signature, slot |-> in.slot,
                        blockTime |-> in.blockTime, vaultPda |-> vaultPda,
                        positionPda |-> NullNum, authority |-> closedVault.authority,
                        owner |-> NullStr, amount |-> NullNum])
                activityKey == kActivity(in.signature, activityDto.type, in.slot)
                wasNew == getJSON(st, activityKey) = Null
                score == ActivityScore(activityDto, in.slot)
            IN <<CmdSet(kVaultJson(vaultPda), closedVault),
                 CmdZAdd(kAuthorityVaultsByUpdated(closedVault.authority, "all"),
                         closedVault.updatedAtEpoch, vaultPda),
                 CmdZAdd(kAuthorityVaultsByUpdated(closedVault.authority, "Closed"),
                         closedVault.updatedAtEpoch, vaultPda),
                 CmdZRem(kAuthorityVaultsByUpdated(closedVault.authority, existing.status),
                         vaultPda),
                 CmdSetNX(activityKey, activityDto)>>
               \o (IF wasNew
                   THEN <<CmdZAdd(kVaultActivity(vaultPda), score, activityKey.id)>>
                   ELSE <<>>)
       ELSE <<>>

RECURSIVE CloseVaultLoopDeleting(_, _, _)
CloseVaultLoopDeleting(st, keys, in) ==
    IF keys = <<>> THEN <<>>
    ELSE LET c == IF CloseVaultCmds(st, Head(keys), in) # <<>>
                    THEN <<CmdSet(kVaultJson(Head(keys)), Null)>> ELSE <<>>
         IN c \o CloseVaultLoopDeleting(ApplyCmds(st, c), Tail(keys), in)

RECURSIVE CloseVaultLoop(_, _, _)
CloseVaultLoop(st, keys, in) ==
    IF keys = <<>> THEN <<>>
    ELSE LET c == CloseVaultCmds(st, Head(keys), in)
         IN c \o CloseVaultLoop(ApplyCmds(st, c), Tail(keys), in)

ClaimAmountRoundedUp(existing, vault) ==
    IF vault # Null /\ vault.status = "Canceled" THEN existing.deposited
    ELSE IF vault # Null /\ vault.payoutNum # NullNum /\ vault.payoutDen # NullNum
            /\ vault.payoutDen > 0
      THEN (existing.deposited * vault.payoutNum + vault.payoutDen - 1)
              \div vault.payoutDen
    ELSE existing.deposited

\* Settlement of a position closed by a claim.
ClaimAmount(existing, vault) ==
    IF vault # Null /\ vault.status = "Canceled" THEN existing.deposited
    ELSE IF vault # Null /\ vault.payoutNum # NullNum /\ vault.payoutDen # NullNum
            /\ vault.payoutDen > 0
      THEN (existing.deposited * vault.payoutNum) \div vault.payoutDen
    ELSE existing.deposited

\* claim branch, one candidate key.
ClaimCmds(st, positionPda, in) ==
    LET existing == getJSON(st, kPositionJson(positionPda))
    IN IF existing # Null /\ existing.deposited # NullNum /\ existing.deposited > 0
       THEN LET vault == getJSON(st, kVaultJson(existing.vaultPda))
                claimAmount == ClaimAmount(existing, vault)
                claimedPosition ==
                    [existing EXCEPT
                       !.claimed = claimAmount,
                       !.slot = in.slot,
                       !.updatedAt = IF Truthy(in.blockTime) THEN in.blockTime ELSE in.now,
                       !.updatedAtEpoch = IF in.blockTime # NullNum THEN in.blockTime ELSE in.now]
                activityDto ==
                    toActivityDTO("claim",
                       [txSig |-> in.signature, slot |-> in.slot,
                        blockTime |-> in.blockTime, vaultPda |-> existing.vaultPda,
                        positionPda |-> positionPda,
                        authority |-> IF vault # Null THEN vault.authority ELSE NullStr,
                        owner |-> existing.owner, amount |-> claimAmount])
                activityKey == kActivity(in.signature, activityDto.type, in.slot)
                wasNew == getJSON(st, activityKey) = Null
                score == ActivityScore(activityDto, in.slot)
            IN <<CmdSet(kPositionJson(positionPda), claimedPosition),
                 CmdZAdd(kOwnerPositionsByUpdated(claimedPosition.owner),
                         claimedPosition.updatedAtEpoch, positionPda),
                 CmdSetNX(activityKey, activityDto)>>
               \o (IF wasNew
                   THEN <<CmdZAdd(kVaultActivity(activityDto.vaultPda), score, activityKey.id),
                          CmdZAdd(kOwnerActivity(activityDto.owner), score, activityKey.id)>>
                   ELSE <<>>)
       ELSE <<>>

RECURSIVE ClaimLoop(_, _, _)
ClaimLoop(st, keys, in) ==
    IF keys = <<>> THEN <<>>
    ELSE LET c == ClaimCmds(st, Head(keys), in)
         IN c \o ClaimLoop(ApplyCmds(st, c), Tail(keys), in)

(***************************************************************************)
(* Decoded-account path.  old is the store as read by the batched getJSON  *)
(* calls that precede the pipeline.                                        *)
(***************************************************************************)
IsStaleNever(existing, dto) == FALSE

\* The slot comparison that guards an upsert.
IsStale(existing, dto) ==
    /\ existing # Null
    /\ existing.slot # NullNum
    /\ dto.slot # NullNum
    /\ dto.slot < existing.slot

VaultOpsNoRemoval(item, old, in) ==
    LET dto == toVaultDTO(item.pda, item.data, in.slot, in.blockTime, in.now)
        existingVault == getJSON(old, kVaultJson(item.pda))
    IN IF IsStale(existingVault, dto) THEN <<>>
       ELSE <<CmdSet(kVaultJson(item.pda), dto),
              CmdSAdd(kVaultsSet, item.pda),
              CmdSAdd(kAuthorityVaults(dto.authority), item.pda),
              CmdZAdd(kAuthorityVaultsByUpdated(dto.authority, "all"),
                      dto.updatedAtEpoch, item.pda),
              CmdZAdd(kAuthorityVaultsByUpdated(dto.authority, dto.status),
                      dto.updatedAtEpoch, item.pda)>>

\* Commands queued for one decoded vault.
VaultOps(item, old, in) ==
    LET dto == toVaultDTO(item.pda, item.data, in.slot, in.blockTime, in.now)
        existingVault == getJSON(old, kVaultJson(item.pda))
        statusChanged == existingVault # Null /\ existingVault.status # dto.status
    IN IF IsStale(existingVault, dto) THEN <<>>
       ELSE <<CmdSet(kVaultJson(item.pda), dto),
              CmdSAdd(kVaultsSet, item.pda),
              CmdSAdd(kAuthorityVaults(dto.authority), item.pda),
              CmdZAdd(kAuthorityVaultsByUpdated(dto.authority, "all"),
                      dto.updatedAtEpoch, item.pda),
              CmdZAdd(kAuthorityVaultsByUpdated(dto.authority, dto.status),
                      dto.updatedAtEpoch, item.pda)>>
            \o (IF statusChanged
                THEN <<CmdZRem(kAuthorityVaultsByUpdated(dto.authority,
                                                        existingVault.status),
                               item.pda)>>
                ELSE <<>>)

PositionOpsScoredBySlot(item, old, in) ==
    LET dto == toPositionDTO(item.pda, item.data, in.slot, in.blockTime, in.now)
        existingPosition == getJSON(old, kPositionJson(item.pda))
    IN IF IsStale(existingPosition, dto) THEN <<>>
       ELSE <<CmdSet(kPositionJson(item.pda), dto),
              CmdSAdd(kOwnerPositions(dto.owner), item.pda),
              CmdZAdd(kOwnerPositionsByUpdated(dto.owner), dto.slot, item.pda)>>

\* Commands queued for one decoded position.
PositionOps(item, old, in) ==
    LET dto == toPositionDTO(item.pda, item.data, in.slot, in.blockTime, in.now)
        existingPosition == getJSON(old, kPositionJson(item.pda))
    IN IF IsStale(existingPosition, dto) THEN <<>>
       ELSE <<CmdSet(kPositionJson(item.pda), dto),
              CmdSAdd(kOwnerPositions(dto.owner), item.pda),
              CmdZAdd(kOwnerPositionsByUpdated(dto.owner), dto.updatedAtEpoch, item.pda)>>

\* A pipeline that queues nothing more once it meets a stale account.
RECURSIVE PipelineOpsUntilStale(_, _, _)
PipelineOpsUntilStale(decoded, old, in) ==
    IF decoded = <<>> THEN <<>>
    ELSE LET ops == IF Head(decoded).type = "vault"
                      THEN VaultOps(Head(decoded), old, in)
                      ELSE PositionOps(Head(decoded), old, in)
         IN IF ops = <<>> THEN <<>>
            ELSE ops \o PipelineOpsUntilStale(Tail(decoded), old, in)

RECURSIVE PipelineOps(_, _, _)
PipelineOps(decoded, old, in) ==
    IF decoded = <<>> THEN <<>>
    ELSE (IF Head(decoded).type = "vault"
            THEN VaultOps(Head(decoded), old, in)
            ELSE PositionOps(Head(decoded), old, in))
         \o PipelineOps(Tail(decoded), old, in)

\* decoded.find(d => d.type === t): the first item of that type, or Null.
FindType(decoded, t) ==
    LET idx == {i \in 1..Len(decoded) : decoded[i].type = t}
    IN IF idx = {} THEN Null
       ELSE decoded[CHOOSE i \in idx : \A j \in idx : i <= j]

OrZero(x) == IF x = NullNum THEN 0 ELSE x

VaultAmountTotal(action, newVault, oldVault) ==
    IF action \in {"deposit", "initializeVault"} /\ newVault.total_deposited > 0
      THEN newVault.total_deposited
    ELSE IF action = "matureVault" /\ newVault.payout_num > 0
      THEN newVault.payout_num
    ELSE NullNum

\* Amount from the vault counters; NullNum where the code leaves it undefined.
VaultAmount(action, newVault, oldVault) ==
    IF oldVault # Null
    THEN IF action \in {"deposit", "initializeVault"}
           THEN LET delta == newVault.total_deposited - OrZero(oldVault.totalDeposited)
                IN IF delta > 0 THEN delta ELSE NullNum
         ELSE IF action = "claim"
           THEN LET delta == newVault.total_claimed - OrZero(oldVault.totalClaimed)
                IN IF delta > 0 THEN delta ELSE NullNum
         ELSE IF action = "matureVault"
           THEN IF newVault.payout_num > 0 THEN newVault.payout_num ELSE NullNum
         ELSE NullNum
    ELSE IF action \in {"deposit", "initializeVault"} /\ newVault.total_deposited > 0
           THEN newVault.total_deposited
         ELSE IF action = "matureVault" /\ newVault.payout_num > 0
           THEN newVault.payout_num
         ELSE NullNum

\* Amount from the position counters; NullNum where the code does not assign.
PositionAmount(action, newPosition, oldPosition) ==
    IF oldPosition # Null
    THEN IF action = "deposit"
           THEN LET delta == newPosition.deposited - OrZero(oldPosition.deposited)
                IN IF delta > 0 THEN delta ELSE NullNum
         ELSE IF action = "claim"
           THEN LET delta == newPosition.claimed - OrZero(oldPosition.claimed)
                IN IF delta > 0 THEN delta ELSE NullNum
         ELSE NullNum
    ELSE IF action = "deposit" /\ newPosition.deposited > 0
           THEN newPosition.deposited
         ELSE NullNum

\* The activity record of one action of the decoded path.
DecodedActivityDto(action, decoded, old, in) ==
    LET vaultItem == FindType(decoded, "vault")
        positionItem == FindType(decoded, "position")
        fromVault == IF vaultItem # Null
                       THEN VaultAmount(action, vaultItem.data,
                                        getJSON(old, kVaultJson(vaultItem.pda)))
                       ELSE NullNum
        fromPosition == IF positionItem # Null
                          THEN PositionAmount(action, positionItem.data,
                                              getJSON(old, kPositionJson(positionItem.pda)))
                          ELSE NullNum
        amount == IF fromPosition # NullNum THEN fromPosition ELSE fromVault
    IN toActivityDTO(action,
          [txSig |-> in.signature, slot |-> in.slot, blockTime |-> in.blockTime,
           vaultPda |-> IF vaultItem # Null THEN vaultItem.pda ELSE NullNum,
           positionPda |-> IF positionItem # Null THEN positionItem.pda ELSE NullNum,
           authority |-> IF vaultItem # Null THEN vaultItem.data.authority ELSE NullStr,
           owner |-> IF positionItem # Null THEN positionItem.data.owner ELSE NullStr,
           amount |-> amount])

\* One MULTI/EXEC per action: SET NX of the record and the timeline ZADDs.
ActivityPipeline(action, decoded, old, in) ==
    LET activityDto == DecodedActivityDto(action, decoded, old, in)
        activityKey == kActivity(in.signature, activityDto.type, in.slot)
        score == ActivityScore(activityDto, in.slot)
    IN CmdMulti(<<CmdSetNX(activityKey, activityDto)>>
                \o (IF activityDto.vaultPda # NullNum
                    THEN <<CmdZAdd(kVaultActivity(activityDto.vaultPda), score, activityKey.id)>>
                    ELSE <<>>)
                \o (IF activityDto.owner # NullStr
                    THEN <<CmdZAdd(kOwnerActivity(activityDto.owner), score, activityKey.id)>>
                    ELSE <<>>))

RECURSIVE ActivityLoop(_, _, _, _)
ActivityLoop(actions, decoded, old, in) ==
    IF actions = <<>> THEN <<>>
    ELSE (IF Head(actions) = "claim" THEN <<>>
          ELSE <<ActivityPipeline(Head(actions), decoded, old, in)>>)
         \o ActivityLoop(Tail(actions), decoded, old, in)

\* Everything the decoded path issues, given the records it read.
DecodedPathCmds(old, decoded, actions, in) ==
    LET pipelineOps == PipelineOps(decoded, old, in)
    IN (IF Len(pipelineOps) > 0 THEN <<CmdMulti(pipelineOps)>> ELSE <<>>)
       \o ActivityLoop(actions, decoded, old, in)

\* The commands one payload item issues when it runs alone from store st.
ItemCmds(st, in) ==
    LET programAccounts == filterProgramAccounts(in.accountKeys, in.infos)
        decoded == decodeAccounts(programAccounts, in.infos)
        actions == extractActionsFromLogs(in.logMessages)
    IN IF Len(programAccounts) = 0 THEN <<>>
       ELSE IF Includes(actions, "closeVault") /\ Len(decoded) = 0
         THEN CloseVaultLoop(st, NullKeys(in), in)
       ELSE LET claimCmds == IF Includes(actions, "claim")
                               THEN ClaimLoop(st, NullKeys(in), in) ELSE <<>>
            IN IF Len(decoded) = 0 THEN claimCmds
               ELSE claimCmds
                    \o DecodedPathCmds(ApplyCmds(st, claimCmds), decoded, actions, in)

HandleItem(st, in) == ApplyCmds(st, ItemCmds(st, in))

(***************************************************************************)
(* Inputs of the ingest specifications.                                    *)
(***************************************************************************)
Range(seq) == {seq[i] : i \in 1..Len(seq)}

\* Counters an on-chain vault can show: (total_deposited, payout_num,
\* payout_den); the payout ratio is set when the vault matures.
VaultCounters(status) ==
    IF status = "Funding" THEN {<<0, 0, 0>>, <<2, 0, 0>>}
    ELSE IF status \in {"Matured", "Closed"} THEN {<<2, 3, 2>>}
    ELSE {<<2, 0, 0>>}

VaultInfos(pda) ==
    {[owner |-> ProgramId, executable |-> FALSE, hasData |-> TRUE, layout |-> "Vault",
      data |-> [authority |-> AuthorityOf(pda), status |-> s,
                total_deposited |-> c[1], total_claimed |-> 0,
                payout_num |-> c[2], payout_den |-> c[3]]] :
        s \in Statuses, c \in {<<0, 0, 0>>, <<2, 0, 0>>, <<2, 3, 2>>}}

LiveVaultInfos(pda) ==
    {i \in VaultInfos(pda) :
        <<i.data.total_deposited, i.data.payout_num, i.data.payout_den>>
            \in VaultCounters(i.data.status)}

PositionInfos(pda) ==
    {[owner |-> ProgramId, executable |-> FALSE, hasData |-> TRUE, layout |-> "Position",
      data |-> [vault |-> VaultOf(pda), owner |-> OwnerOf(pda),
                deposited |-> 2, claimed |-> 0]]}

\* A program-owned account that is neither a Vault nor a Position.
OtherInfo ==
    [owner |-> ProgramId, executable |-> FALSE, hasData |-> TRUE, layout |-> "Other",
     data |-> Null]

InfoOptions(k) ==
    IF k \in VaultPdas THEN {Null} \cup LiveVaultInfos(k)
    ELSE IF k \in PositionPdas THEN {Null} \cup PositionInfos(k)
    ELSE {OtherInfo}

AllInfos == UNION {InfoOptions(k) : k \in VaultPdas \cup PositionPdas \cup OtherPdas}

\* accountKeys of the ingested transactions: one vault, its position and an
\* unrelated program account, in any combination.
IngestKeyLists ==
    {<<>>, <<1>>, <<11>>, <<21>>, <<1, 11>>, <<1, 21>>, <<11, 21>>, <<1, 11, 21>>}

IngestLogs ==
    {<<>>, <<"Instruction: Deposit">>, <<"Instruction: Claim">>,
     <<"Instruction: CloseVault">>}

IngestBlockTimes == {NullNum, 1}

\* The wall clock is read only where blockTime is null or 0.
ClockReadings(blockTime) == IF Truthy(blockTime) THEN {2} ELSE Times

InfosFor(keys) ==
    {f \in [Range(keys) -> AllInfos] : \A k \in Range(keys) : f[k] \in InfoOptions(k)}

Decodable(info) == info # Null /\ info.layout \in {"Vault", "Position"}

\* Inputs that differ only in parts no branch of the handler looks at are
\* enumerated once: an absent account is consulted only by the claim branch
\* (positions) and the closeVault branch (vaults), and an undecodable program
\* account only matters where nothing decodes (it is dropped by
\* decodeAccounts).
Relevant(in) ==
    LET keys == Range(in.accountKeys)
        actions == extractActionsFromLogs(in.logMessages)
    IN /\ keys # {}
       /\ \A k \in keys :
            in.infos[k] = Null =>
               \/ k \in PositionPdas /\ Includes(actions, "claim")
               \/ k \in VaultPdas /\ Includes(actions, "closeVault")
       /\ 21 \in keys =>
            /\ \A k \in keys : ~Decodable(in.infos[k])
            /\ \E k \in keys : in.infos[k] = Null

AllInputs ==
    UNION {
      {[signature |-> sig, slot |-> slot, blockTime |-> bt, accountKeys |-> keys,
        logMessages |-> logs, infos |-> infos, now |-> now] :
          sig \in Signatures, slot \in Slots, bt \in IngestBlockTimes,
          logs \in IngestLogs, infos \in InfosFor(keys), now \in Times} :
      keys \in IngestKeyLists}

\* Inputs of Spec: one transaction signature per (slot, instruction), and the
\* wall clock standing still.
ValidInputs ==
    {in \in AllInputs :
        /\ in.signature = "sigA"
        /\ in.now = 2
        /\ (in.blockTime = NullNum \/ in.slot = 1)
        /\ Relevant(in)}

(***************************************************************************)
(* State.                                                                  *)
(***************************************************************************)
VARIABLES
    store,       \* the Redis store
    storeB,      \* a second store, for the specifications that compare two runs
    ingests,     \* number of payload items processed
    prevStatus,  \* status of each vault record before the latest ingest
    sc,          \* bookkeeping of the scenario specifications
    inv,         \* the concurrent invocations
    page         \* the latest query and its response

vars == <<store, storeB, ingests, prevStatus, sc, inv, page>>

StatusOf(st, pda) ==
    IF st.vaultJson[pda] = Null THEN NullStr ELSE st.vaultJson[pda].status

StatusesOf(st) == [p \in VaultPdas |-> StatusOf(st, p)]

(***************************************************************************)
(* Spec: webhook items processed one at a time, each to completion.        *)
(***************************************************************************)
Init ==
    /\ store = EmptyStore
    /\ storeB = Null
    /\ ingests = 0
    /\ prevStatus = StatusesOf(EmptyStore)
    /\ sc = Null
    /\ inv = Null
    /\ page = Null

Ingest(in) ==
    /\ ingests < MaxIngest
    /\ store' = HandleItem(store, in)
    /\ prevStatus' = StatusesOf(store)
    /\ ingests' = ingests + 1
    /\ UNCHANGED <<storeB, sc, inv, page>>

Next == \E in \in ValidInputs : Ingest(in)

Spec == Init /\ [][Next]_vars

(***************************************************************************)
(* Properties of Spec.                                                     *)
(***************************************************************************)
RecordKept(old, new) == old # Null => new # Null /\ new.slot >= old.slot

\* C1: over any sequence of webhook events processed one at a time, through
\* the decoded-account path, the closeVault branch and the claim-closure
\* branch alike, the stored slot of a vault or position record never
\* decreases.
C1_SlotNeverDecreases ==
    [][/\ \A p \in VaultPdas : RecordKept(store.vaultJson[p], store'.vaultJson[p])
       /\ \A p \in PositionPdas :
            RecordKept(store.positionJson[p], store'.positionJson[p])]_vars

StatusIndex(st, authority, status) ==
    ZMembers(st.zAuthorityVaults[<<authority, status>>])

\* C9: after any sequence of webhook events processed one at a time, every
\* vault with a stored record is a member of its authority's global ordered
\* index and of exactly one per-status ordered index, the one of its stored
\* status.
C9_VaultInItsIndices ==
    \A p \in VaultPdas :
        store.vaultJson[p] # Null =>
            LET v == store.vaultJson[p] IN
            /\ p \in StatusIndex(store, v.authority, "all")
            /\ \A s \in Statuses :
                 p \in StatusIndex(store, v.authority, s) <=> s = v.status

\* An applied update changed the status of a stored vault from S to T: the
\* vault is now in the T index and no longer in the S index.
C9_StatusChanged ==
    \E p \in VaultPdas :
        /\ prevStatus[p] # NullStr
        /\ store.vaultJson[p] # Null
        /\ prevStatus[p] # store.vaultJson[p].status
        /\ p \in StatusIndex(store, store.vaultJson[p].authority,
                             store.vaultJson[p].status)
        /\ p \notin StatusIndex(store, store.vaultJson[p].authority, prevStatus[p])

\* C18: once a vault or position record has been stored, every later state
\* still holds a record for that address and the address is still in its
\* membership sets: no ingest path, the closeVault and claim-closure
\* branches included, deletes a primary record.
C18_RecordNeverDeleted ==
    [][/\ \A p \in VaultPdas :
            store.vaultJson[p] # Null =>
                /\ store'.vaultJson[p] # Null
                /\ p \in store'.vaultsSet
                /\ p \in store'.authorityVaults[store'.vaultJson[p].authority]
       /\ \A p \in PositionPdas :
            store.positionJson[p] # Null =>
                /\ store'.positionJson[p] # Null
                /\ p \in store'.ownerPositions[store'.positionJson[p].owner]]_vars

\* A closeVault event was applied to a stored vault whose account is gone:
\* the record is still there, as a Closed snapshot, and so is its membership.
C18_ClosedVaultKept ==
    \E p \in VaultPdas :
        /\ prevStatus[p] \in {"Canceled", "Matured"}
        /\ store.vaultJson[p] # Null
        /\ store.vaultJson[p].status = "Closed"
        /\ p \in store.vaultsSet
        /\ p \in store.authorityVaults[store.vaultJson[p].authority]

MaxSeed == 1

\* Seeds load account snapshots through the decoded path.
SeedInputs == {in \in ValidInputs : in.logMessages = <<>>}

ReplayInit ==
    /\ store = EmptyStore
    /\ storeB = Null
    /\ ingests = 0
    /\ prevStatus = Null
    /\ sc = [phase |-> "seed", in |-> Null, pre |-> Null, now2 |-> NullNum]
    /\ inv = Null
    /\ page = Null

RSeed(in) ==
    /\ sc.phase = "seed"
    /\ ingests < MaxSeed
    /\ store' = HandleItem(store, in)
    /\ ingests' = ingests + 1
    /\ UNCHANGED <<storeB, prevStatus, sc, inv, page>>

RDeliver(in) ==
    /\ sc.phase = "seed"
    /\ store' = HandleItem(store, in)
    /\ sc' = [phase |-> "delivered", in |-> in, pre |-> store, now2 |-> NullNum]
    /\ UNCHANGED <<storeB, ingests, prevStatus, inv, page>>

\* storeB keeps the store as the first processing left it.
RRedeliver(now2) ==
    /\ sc.phase = "delivered"
    /\ now2 \in ClockReadings(sc.in.blockTime)
    /\ storeB' = store
    /\ store' = HandleItem(store, [sc.in EXCEPT !.now = now2])
    /\ sc' = [sc EXCEPT !.phase = "redelivered", !.now2 = now2]
    /\ UNCHANGED <<ingests, prevStatus, inv, page>>

\* The invocation dies after the first k commands it issues (a MULTI/EXEC
\* batch is one command: Redis applies all of it or none).
RCrash(in) ==
    /\ sc.phase = "seed"
    /\ \E k \in 0..(Len(ItemCmds(store, in)) - 1) :
         store' = ApplyCmds(store, SubSeq(ItemCmds(store, in), 1, k))
    /\ sc' = [phase |-> "crashed", in |-> in, pre |-> store, now2 |-> NullNum]
    /\ UNCHANGED <<storeB, ingests, prevStatus, inv, page>>

RHeal(now2) ==
    /\ sc.phase = "crashed"
    /\ now2 \in ClockReadings(sc.in.blockTime)
    /\ store' = HandleItem(store, [sc.in EXCEPT !.now = now2])
    /\ sc' = [sc EXCEPT !.phase = "healed", !.now2 = now2]
    /\ UNCHANGED <<storeB, ingests, prevStatus, inv, page>>

ReplayNext ==
    \/ sc.phase = "seed" /\ \E in \in SeedInputs : RSeed(in)
    \/ sc.phase = "seed" /\ \E in \in ValidInputs : RDeliver(in)
    \/ \E now2 \in Times : RRedeliver(now2)
    \/ sc.phase = "seed" /\ \E in \in ValidInputs : RCrash(in)
    \/ \E now2 \in Times : RHeal(now2)

SpecReplay == ReplayInit /\ [][ReplayNext]_vars

\* C2: processing the same event twice in succession (same item, same RPC
\* answer, nothing in between) leaves every record, membership set, ordered
\* index and activity record as the first processing left them.  Stated for
\* redeliveries that also read the same wall-clock second.
C2_RedeliveryChangesNothing ==
    (sc.phase = "redelivered" /\ sc.now2 = sc.in.now) => store = storeB

ClosesOnlyItsVault(in, p) ==
    /\ Includes(extractActionsFromLogs(in.logMessages), "closeVault")
    /\ p \in Range(in.accountKeys)
    /\ in.infos[p] = Null
    /\ \A k \in Range(in.accountKeys) : ~IsProgramAccount(in.infos[k])

\* C6: a closeVault event whose vault address resolves to absent, delivered
\* on a cached record with status Canceled or Matured, replaces the record
\* by a Closed snapshot with the event's slot and moves the vault from the
\* old status index to the Closed index, keeping it in the global index;
\* stated for a transaction whose only program-owned account was the closed
\* vault itself.
C6_CloseVaultSynthesizesClosed ==
    \A p \in VaultPdas :
        (/\ sc.phase = "delivered"
         /\ ClosesOnlyItsVault(sc.in, p)
         /\ sc.pre.vaultJson[p] # Null
         /\ sc.pre.vaultJson[p].status \in {"Canceled", "Matured"})
        => /\ store.vaultJson[p].status = "Closed"
           /\ store.vaultJson[p].slot = sc.in.slot
           /\ p \notin StatusIndex(store, AuthorityOf(p), sc.pre.vaultJson[p].status)
           /\ p \in StatusIndex(store, AuthorityOf(p), "Closed")
           /\ p \in StatusIndex(store, AuthorityOf(p), "all")

\* C10: if an invocation fails after applying any prefix of its store writes
\* and the same event is then redelivered and processed to completion, the
\* store equals the one an uninterrupted processing produces, timeline
\* entries of the activity record included.  Stated for redeliveries that
\* read the same wall-clock second.
C10_RedeliveryHeals ==
    (sc.phase = "healed" /\ sc.now2 = sc.in.now)
        => store = HandleItem(sc.pre, sc.in)

(***************************************************************************)
(* SpecOrder: two snapshot events of different slots that share an account *)
(* are delivered in both orders, one order to each of two replicas of the  *)
(* same seeded store.  Every processing reads the wall clock on its own.   *)
(*   store: lo then hi;  storeB: hi then lo;  sc = [phase, lo, hi].        *)
(***************************************************************************)
\* Events all of whose accounts decode: they go through the decoded path.
OrderInputs ==
    {in \in AllInputs :
        /\ in.signature = "sigA"
        /\ in.now = 2
        /\ in.logMessages \in {<<>>, <<"Instruction: Deposit">>}
        /\ in.accountKeys # <<>>
        /\ \A k \in Range(in.accountKeys) : Decodable(in.infos[k])}

Carries(in, k) == k \in Range(in.accountKeys) /\ Decodable(in.infos[k])

\* The record the two replicas may hold beforehand: one account, loaded at
\* the lower slot.
OrderSeeds ==
    {in \in SeedInputs :
        in.slot = 1 /\ Truthy(in.blockTime) /\ Len(in.accountKeys) = 1}

OrderInit ==
    /\ store = EmptyStore
    /\ storeB = EmptyStore
    /\ ingests = 0
    /\ prevStatus = Null
    /\ sc = [phase |-> "seed", lo |-> Null, hi |-> Null]
    /\ inv = Null
    /\ page = Null

OSeed(in) ==
    /\ sc.phase = "seed"
    /\ ingests = 0
    /\ store' = HandleItem(store, in)
    /\ storeB' = HandleItem(storeB, in)
    /\ ingests' = ingests + 1
    /\ UNCHANGED <<prevStatus, sc, inv, page>>

OFirst(lo, hi, nowA, nowB) ==
    /\ sc.phase = "seed"
    /\ lo.slot < hi.slot
    /\ \E k \in VaultPdas \cup PositionPdas : Carries(lo, k) /\ Carries(hi, k)
    /\ nowA \in ClockReadings(lo.blockTime)
    /\ nowB \in ClockReadings(hi.blockTime)
    /\ store' = HandleItem(store, [lo EXCEPT !.now = nowA])
    /\ storeB' = HandleItem(storeB, [hi EXCEPT !.now = nowB])
    /\ sc' = [phase |-> "first", lo |-> lo, hi |-> hi]
    /\ UNCHANGED <<ingests, prevStatus, inv, page>>

OSecond(nowA, nowB) ==
    /\ sc.phase = "first"
    /\ nowA \in ClockReadings(sc.hi.blockTime)
    /\ nowB \in ClockReadings(sc.lo.blockTime)
    /\ store' = HandleItem(store, [sc.hi EXCEPT !.now = nowA])
    /\ storeB' = HandleItem(storeB, [sc.lo EXCEPT !.now = nowB])
    /\ sc' = [sc EXCEPT !.phase = "done"]
    /\ UNCHANGED <<ingests, prevStatus, inv, page>>

OrderNext ==
    \/ sc.phase = "seed" /\ \E in \in OrderSeeds : OSeed(in)
    \/ sc.phase = "seed" /\
         \E lo \in OrderInputs, hi \in OrderInputs, nowA \in Times, nowB \in Times :
            OFirst(lo, hi, nowA, nowB)
    \/ \E nowA \in Times, nowB \in Times : OSecond(nowA, nowB)

SpecOrder == OrderInit /\ [][OrderNext]_vars

\* The index entries of a member, per index of a family.
VaultIndexEntries(st, authority, p) ==
    [s \in StatusKeys |-> {e \in st.zAuthorityVaults[<<authority, s>>] : e.member = p}]

\* What the slot-hi snapshot of vault p stores, alone.
VaultOutcomeIs(st, p, hi) ==
    LET dto == toVaultDTO(p, hi.infos[p].data, hi.slot, hi.blockTime, hi.now)
    IN /\ st.vaultJson[p] = dto
       /\ p \in st.vaultsSet
       /\ p \in st.authorityVaults[dto.authority]
       /\ VaultIndexEntries(st, dto.authority, p) =
            [s \in StatusKeys |->
                IF s \in {"all", dto.status}
                  THEN {[member |-> p, score |-> dto.updatedAtEpoch]} ELSE {}]

PositionOutcomeIs(st, p, hi) ==
    LET dto == toPositionDTO(p, hi.infos[p].data, hi.slot, hi.blockTime, hi.now)
    IN /\ st.positionJson[p] = dto
       /\ p \in st.ownerPositions[dto.owner]
       /\ {e \in st.zOwnerPositions[dto.owner] : e.member = p} =
            {[member |-> p, score |-> dto.updatedAtEpoch]}

RECURSIVE Flatten(_)
Flatten(cmds) ==
    IF cmds = <<>> THEN <<>>
    ELSE (IF Head(cmds).type = "multi" THEN Head(cmds).cmds ELSE <<Head(cmds)>>)
         \o Flatten(Tail(cmds))

RECURSIVE FirstInsertsUnchecked(_, _)
FirstInsertsUnchecked(st, cmds) ==
    IF cmds = <<>> THEN 0
    ELSE (IF Head(cmds).type = "setnx" THEN 1 ELSE 0)
         + FirstInsertsUnchecked(ApplySimple(st, Head(cmds)), Tail(cmds))

\* Number of SET NX replies that report a first insert when the commands
\* are applied in order from st: the wasNew observations.
RECURSIVE FirstInserts(_, _)
FirstInserts(st, cmds) ==
    IF cmds = <<>> THEN 0
    ELSE (IF Head(cmds).type = "setnx" /\ getJSON(st, Head(cmds).key) = Null
            THEN 1 ELSE 0)
         + FirstInserts(ApplySimple(st, Head(cmds)), Tail(cmds))

(***************************************************************************)
(* SpecConc: two invocations of the handler run at the same time on one    *)
(* store.  Both carry snapshot events, so each one issues, in order: one   *)
(* GET per decoded account (the batched read of the old records), the      *)
(* record/index MULTI, and one MULTI per activity.  Commands of the two     *)
(* invocations interleave freely; nothing is held between a read and the   *)
(* write that depends on it.                                               *)
(*   inv[i] = [in, pc, n, old, activities]: the item, the phase, the       *)
(*   number of commands of the phase already issued, the records read so   *)
(*   far and the activitiesProcessed counter;  storeB: the store the two   *)
(*   invocations started on.                                               *)
(***************************************************************************)
Invocations == {"A", "B"}

ConcInputs ==
    {in \in ValidInputs :
        /\ in.logMessages \in {<<>>, <<"Instruction: Deposit">>}
        /\ 1 \in Range(in.accountKeys)
        /\ \A k \in Range(in.accountKeys) : Decodable(in.infos[k])
        /\ in.infos[1].data.status \in {"Funding", "Active"}}

DecodedOf(in) ==
    decodeAccounts(filterProgramAccounts(in.accountKeys, in.infos), in.infos)

\* Keys of the batched read: the vaults, then the positions.
ReadKeys(in) ==
    LET decoded == DecodedOf(in)
        pdas(t) == SelectSeq(decoded, LAMBDA d : d.type = t)
    IN [i \in 1..Len(pdas("vault")) |-> kVaultJson(pdas("vault")[i].pda)]
       \o [i \in 1..Len(pdas("position")) |-> kPositionJson(pdas("position")[i].pda)]

WriteCmds(v) ==
    DecodedPathCmds(v.old, DecodedOf(v.in), extractActionsFromLogs(v.in.logMessages), v.in)

NewInvocation(in) ==
    [in |-> in, pc |-> "read", n |-> 0, old |-> EmptyStore, activities |-> 0]

ConcInit ==
    /\ store = EmptyStore
    /\ storeB = Null
    /\ ingests = 0
    /\ prevStatus = Null
    /\ sc = [phase |-> "seed"]
    /\ inv = Null
    /\ page = Null

CSeed(in) ==
    /\ sc.phase = "seed"
    /\ ingests = 0
    /\ store' = HandleItem(store, in)
    /\ ingests' = ingests + 1
    /\ UNCHANGED <<storeB, prevStatus, sc, inv, page>>

\* The two invocations are interchangeable: a is the one of the lower slot.
CStart(a, b) ==
    /\ sc.phase = "seed"
    /\ a.slot <= b.slot
    /\ inv' = [i \in Invocations |-> NewInvocation(IF i = "A" THEN a ELSE b)]
    /\ storeB' = store
    /\ sc' = [phase |-> "run"]
    /\ UNCHANGED <<store, ingests, prevStatus, page>>

CRead(i) ==
    /\ sc.phase = "run"
    /\ inv[i].pc = "read"
    /\ LET v == inv[i]
           key == ReadKeys(v.in)[v.n + 1]
           old == SetString(v.old, key, getJSON(store, key))
           last == v.n + 1 = Len(ReadKeys(v.in))
           next == [v EXCEPT !.old = old,
                             !.n = IF last THEN 0 ELSE v.n + 1,
                             !.pc = IF ~last THEN "read"
                                    ELSE IF WriteCmds([v EXCEPT !.old = old]) = <<>>
                                      THEN "done" ELSE "write"]
       IN inv' = [inv EXCEPT ![i] = next]
    /\ UNCHANGED <<store, storeB, ingests, prevStatus, sc, page>>

CWrite(i) ==
    /\ sc.phase = "run"
    /\ inv[i].pc = "write"
    /\ LET v == inv[i]
           cmds == WriteCmds(v)
       IN /\ store' = ApplyCmd(store, cmds[v.n + 1])
          /\ inv' = [inv EXCEPT ![i] =
                        [v EXCEPT !.n = v.n + 1,
                                  !.activities =
                                      @ + FirstInserts(store, Flatten(<<cmds[v.n + 1]>>)),
                                  !.pc = IF v.n + 1 = Len(cmds) THEN "done" ELSE "write"]]
    /\ UNCHANGED <<storeB, ingests, prevStatus, sc, page>>

ConcNext ==
    \/ sc.phase = "seed" /\ \E in \in OrderSeeds : CSeed(in)
    \/ sc.phase = "seed" /\ \E a \in ConcInputs, b \in ConcInputs : CStart(a, b)
    \/ \E i \in Invocations : CRead(i)
    \/ \E i \in Invocations : CWrite(i)

SpecConc == ConcInit /\ [][ConcNext]_vars

BothDone == sc.phase = "run" /\ inv["A"].pc = "done" /\ inv["B"].pc = "done"

\* C4: when two invocations for the same vault or position with different
\* slots run concurrently, in every interleaving the final record and its
\* index entries are those of the higher-slot event.
C4_HigherSlotWins ==
    (BothDone /\ inv["A"].in.slot < inv["B"].in.slot) =>
        /\ \A p \in VaultPdas :
             (Carries(inv["A"].in, p) /\ Carries(inv["B"].in, p))
                 => VaultOutcomeIs(store, p, inv["B"].in)
        /\ \A p \in PositionPdas :
             (Carries(inv["A"].in, p) /\ Carries(inv["B"].in, p))
                 => PositionOutcomeIs(store, p, inv["B"].in)

\* C5: under any interleaving of deliveries, the activity record stored
\* under a composite key (signature, type, slot) is the one the first create
\* wrote: no later step modifies or deletes it.
C5_ActivityNeverRewritten ==
    [][\A k \in DOMAIN store.activity :
          /\ k \in DOMAIN store'.activity
          /\ store'.activity[k] = store.activity[k]]_vars

ActivityOf(v) ==
    DecodedActivityDto("deposit", DecodedOf(v.in), v.old, v.in)

\* Both invocations issued a create for the same composite key with
\* different contents; one record is stored, and it is one of the two.
C5_SecondCreateRefused ==
    /\ BothDone
    /\ inv["A"].in.logMessages = <<"Instruction: Deposit">>
    /\ inv["B"].in.logMessages = <<"Instruction: Deposit">>
    /\ ActivityOf(inv["A"]).id = ActivityOf(inv["B"]).id
    /\ ActivityOf(inv["A"]) # ActivityOf(inv["B"])
    /\ ActivityOf(inv["A"]).id \in DOMAIN store.activity
    /\ store.activity[ActivityOf(inv["A"]).id] \in {ActivityOf(inv["A"]), ActivityOf(inv["B"])}

\* processed.activities of invocation i, as far as it comes from creates of
\* the activity key k.
CountedFor(i, k) ==
    IF inv[i].in.logMessages = <<"Instruction: Deposit">> /\ ActivityOf(inv[i]).id = k
    THEN inv[i].activities ELSE 0

\* C19: among all invocations, sequential or concurrent, that attempt to
\* create the same activity key, exactly one observes the create as a first
\* insert and counts it in processed.activities; every other one observes
\* the key as existing and counts nothing for it.  The invocations are the
\* one that ran before the two started and the two concurrent ones.
C19_OneFirstInsert ==
    BothDone =>
        \A i \in Invocations :
            inv[i].in.logMessages = <<"Instruction: Deposit">> =>
                LET k == ActivityOf(inv[i]).id
                IN (IF k \in DOMAIN storeB.activity THEN 1 ELSE 0)
                     + CountedFor("A", k) + CountedFor("B", k) = 1

\* Two concurrent invocations issued a create for one key that did not
\* exist when they started: one of them counted it, the other did not.
C19_OneOfTwoCounted ==
    /\ BothDone
    /\ inv["A"].in.logMessages = <<"Instruction: Deposit">>
    /\ inv["B"].in.logMessages = <<"Instruction: Deposit">>
    /\ ActivityOf(inv["A"]).id = ActivityOf(inv["B"]).id
    /\ ActivityOf(inv["A"]).id \notin DOMAIN storeB.activity
    /\ inv["A"].activities + inv["B"].activities = 1

(***************************************************************************)
(* Read API: GET /api/vaults and GET /api/positions.                       *)
(***************************************************************************)
MAX_SET_SIZE == 1000

Min(a, b) == IF a < b THEN a ELSE b

\* The place of a member among the members of its sorted set, in the
\* lexicographic order Redis breaks score ties by: addresses as they are,
\* activity keys "sig:type:slot" by signature, then type, then slot.
MemberRank(fam, m) ==
    IF fam \in {"zVaultActivity", "zOwnerActivity"}
      THEN (IF m[1] = "sigA" THEN 100 ELSE 200)
           + (CASE m[2] = "authority_withdraw" -> 10
                [] m[2] = "claim" -> 20
                [] m[2] = "deposit" -> 30
                [] m[2] = "funding_finalized" -> 40
                [] m[2] = "matured" -> 50
                [] m[2] = "vault_closed" -> 60
                [] m[2] = "vault_created" -> 70)
           + m[3]
      ELSE m

\* Reverse order of a sorted set: score descending, then member descending.
ZRevFirst(z, fam) ==
    CHOOSE e \in z :
        \A f \in z : \/ f.score < e.score
                     \/ /\ f.score = e.score
                        /\ MemberRank(fam, f.member) <= MemberRank(fam, e.member)

RECURSIVE ZRevOrder(_, _)
ZRevOrder(z, fam) ==
    IF z = {} THEN <<>>
    ELSE <<ZRevFirst(z, fam)>> \o ZRevOrder(z \ {ZRevFirst(z, fam)}, fam)

SortedSetAt(st, key) ==
    CASE key.fam = "zAuthorityVaults" -> st.zAuthorityVaults[key.id]
      [] key.fam = "zOwnerPositions" -> st.zOwnerPositions[key.id]
      [] key.fam = "zVaultActivity" -> st.zVaultActivity[key.id]
      [] key.fam = "zOwnerActivity" -> st.zOwnerActivity[key.id]

\* A score bound: +inf, "(value" (exclusive) or "value" (inclusive).
PlusInf == [inf |-> TRUE, exclusive |-> FALSE, value |-> 0]
Exclusive(value) == [inf |-> FALSE, exclusive |-> TRUE, value |-> value]
Inclusive(value) == [inf |-> FALSE, exclusive |-> FALSE, value |-> value]

BelowMax(score, max) ==
    \/ max.inf
    \/ IF max.exclusive THEN score < max.value ELSE score <= max.value

\* ZRANGEBYSCORE key min max REV LIMIT offset count: the members, highest
\* score first.
zrevrangebyscore(st, key, max, min, offset, count) ==
    LET inRange == {e \in SortedSetAt(st, key) : e.score >= min /\ BelowMax(e.score, max)}
        ordered == ZRevOrder(inRange, key.fam)
        slice == SubSeq(ordered, offset + 1, Min(Len(ordered), offset + count))
    IN [i \in 1..Len(slice) |-> slice[i].member]

MaxScoreInclusive(cursor) ==
    IF cursor # NullNum THEN Inclusive(cursor) ELSE PlusInf

\* const maxScore = cursor !== undefined ? `(${cursor}` : '+inf'
MaxScoreOf(cursor) ==
    IF cursor # NullNum THEN Exclusive(cursor) ELSE PlusInf

\* The records of the listed addresses, in list order; a missing record is
\* logged and left out.
LoadRecords(st, pdas, family) ==
    LET results == [i \in 1..Len(pdas) |->
                      getJSON(st, IF family = "vaults" THEN kVaultJson(pdas[i])
                                  ELSE kPositionJson(pdas[i]))]
    IN SelectSeq(results, LAMBDA v : v # Null)

\* Array.prototype.sort((a, b) => b.updatedAtEpoch - a.updatedAtEpoch):
\* descending and stable.
SortByUpdatedDesc(recs) ==
    SortSeq(recs, LAMBDA a, b : a.updatedAtEpoch > b.updatedAtEpoch)

\* A page whose next cursor is taken from its first item.
PageOfCursorFromFirst(filtered, limit) ==
    LET hasMore == Len(filtered) > limit
        items == SubSeq(filtered, 1, Min(limit, Len(filtered)))
    IN [code |-> 200,
        items |-> items,
        nextCursor |-> IF hasMore /\ Len(items) > 0
                         THEN items[1].updatedAtEpoch ELSE NullNum,
        total |-> IF hasMore THEN NullNum ELSE Len(filtered)]

\* hasMore, the slice and the next cursor.
PageOf(filtered, limit) ==
    LET hasMore == Len(filtered) > limit
        items == SubSeq(filtered, 1, Min(limit, Len(filtered)))
    IN [code |-> 200,
        items |-> items,
        nextCursor |-> IF hasMore /\ Len(items) > 0
                         THEN items[Len(items)].updatedAtEpoch ELSE NullNum,
        total |-> IF hasMore THEN NullNum ELSE Len(filtered)]

TooMany == [code |-> 503, items |-> <<>>, nextCursor |-> NullNum, total |-> NullNum]

VaultsQueryCapInclusive(st, q, zsetFails, members) ==
    LET vaults == LoadRecords(st, members, "vaults")
        filtered == IF q.status = NullStr THEN vaults
                    ELSE SelectSeq(vaults, LAMBDA v : v.status = q.status)
    IN IF zsetFails /\ Len(members) >= MAX_SET_SIZE THEN TooMany
       ELSE IF zsetFails THEN PageOf(SortByUpdatedDesc(filtered), q.limit)
       ELSE PageOf(LoadRecords(st, zrevrangebyscore(st,
                       kAuthorityVaultsByUpdated(q.authority,
                           IF q.status # NullStr THEN q.status ELSE "all"),
                       MaxScoreOf(q.cursor), 0, 0, q.limit + 1), "vaults"), q.limit)

\* GET /api/vaults.  q = [authority, status, cursor, limit], status and cursor
\* NullStr / NullNum when absent.  zsetFails: the sorted-set read throws;
\* members: the membership set as SMEMBERS happens to list it.
VaultsQuery(st, q, zsetFails, members) ==
    LET zsetKey == IF q.status # NullStr
                     THEN kAuthorityVaultsByUpdated(q.authority, q.status)
                     ELSE kAuthorityVaultsByUpdated(q.authority, "all")
        usedZset == ~zsetFails
        pdas == IF usedZset
                  THEN zrevrangebyscore(st, zsetKey, MaxScoreOf(q.cursor), 0, 0, q.limit + 1)
                  ELSE members
        vaults == LoadRecords(st, pdas, "vaults")
        filtered == IF usedZset \/ q.status = NullStr THEN vaults
                    ELSE SelectSeq(vaults, LAMBDA v : v.status = q.status)
        sorted == IF usedZset THEN filtered ELSE SortByUpdatedDesc(filtered)
    IN IF ~usedZset /\ Len(pdas) > MAX_SET_SIZE THEN TooMany
       ELSE PageOf(sorted, q.limit)

\* GET /api/positions.  q = [owner, cursor, limit].
PositionsQuery(st, q, zsetFails, members) ==
    LET usedZset == ~zsetFails
        pdas == IF usedZset
                  THEN zrevrangebyscore(st, kOwnerPositionsByUpdated(q.owner),
                                        MaxScoreOf(q.cursor), 0, 0, q.limit + 1)
                  ELSE members
        positions == LoadRecords(st, pdas, "positions")
        sorted == IF usedZset THEN positions ELSE SortByUpdatedDesc(positions)
    IN IF ~usedZset /\ Len(pdas) > MAX_SET_SIZE THEN TooMany
       ELSE PageOf(sorted, q.limit)

(***************************************************************************)
(* SpecQuery: records of one family (an authority's vaults or an owner's   *)
(* positions) are loaded through the webhook handler, then the list        *)
(* endpoint is queried on the store as it stands and the next cursor is    *)
(* followed.  A query is served from the sorted set, or from the           *)
(* membership set when the sorted-set read throws.                         *)
(*   sc = [phase, family];  page = [q, path, res, seen, start, turn]: the  *)
(*   query, the path taken, the response, the members returned on earlier  *)
(*   pages, the cursor of the first request and the parity of the number   *)
(*   of requests made.                                                     *)
(***************************************************************************)
MaxLoad == 3
MaxLimit == 2

QueryTimes == {1, 2, 3}
QueryCursors == {NullNum, 1, 2, 3, 4}
QueryStatuses == {NullStr, "Funding", "Active", "Matured", "Canceled"}

SnapshotOf(p, info, t) ==
    [signature |-> "sigA", slot |-> 1, blockTime |-> t, accountKeys |-> <<p>>,
     logMessages |-> <<>>, infos |-> [k \in {p} |-> info], now |-> 2]

QueryLoads(family) ==
    IF family = "vaults"
    THEN {SnapshotOf(p, info, t) :
            p \in VaultPdas,
            info \in {i \in VaultInfos(1) :
                        /\ i.data.status \in {"Funding", "Active"}
                        /\ i.data.total_deposited = 2 /\ i.data.payout_num = 0},
            t \in QueryTimes}
    ELSE UNION {{SnapshotOf(p, info, t) : info \in PositionInfos(p), t \in QueryTimes} :
                  p \in PositionPdas}

Queries(family) ==
    IF family = "vaults"
    THEN {[authority |-> "A1", owner |-> NullStr, status |-> s, cursor |-> c, limit |-> l] :
            s \in QueryStatuses, c \in QueryCursors, l \in 1..MaxLimit}
    ELSE {[authority |-> NullStr, owner |-> "O1", status |-> NullStr, cursor |-> c, limit |-> l] :
            c \in QueryCursors, l \in 1..MaxLimit}

\* The orders in which SMEMBERS may list a set.
Listings(set) ==
    {o \in [1..Cardinality(set) -> set] : \A i, j \in DOMAIN o : i # j => o[i] # o[j]}

MembershipSet(st, family) ==
    IF family = "vaults" THEN st.authorityVaults["A1"] ELSE st.ownerPositions["O1"]

Handle(st, family, q, zsetFails, members) ==
    IF family = "vaults" THEN VaultsQuery(st, q, zsetFails, members)
    ELSE PositionsQuery(st, q, zsetFails, members)

PdaOf(rec, family) == IF family = "vaults" THEN rec.vaultPda ELSE rec.positionPda

Returned(res, family) == {PdaOf(res.items[i], family) : i \in 1..Len(res.items)}

QueryInit ==
    /\ store = EmptyStore
    /\ storeB = Null
    /\ ingests = 0
    /\ prevStatus = Null
    /\ sc \in {[phase |-> "load", family |-> f] : f \in {"vaults", "positions"}}
    /\ inv = Null
    /\ page = Null

QLoad(in) ==
    /\ sc.phase = "load"
    /\ ingests < MaxLoad
    /\ store' = HandleItem(store, in)
    /\ ingests' = ingests + 1
    /\ UNCHANGED <<storeB, prevStatus, sc, inv, page>>

\* A first page, served from the sorted set.
QQuery(q) ==
    /\ page = Null
    /\ page' = [q |-> q, path |-> "zset", seen |-> {}, start |-> q.cursor, turn |-> 1,
                res |-> Handle(store, sc.family, q, FALSE, <<>>)]
    /\ sc' = [sc EXCEPT !.phase = "query"]
    /\ UNCHANGED <<store, storeB, ingests, prevStatus, inv>>

\* A first page, served from the membership set.
QQueryFallback(q, members) ==
    /\ page = Null
    /\ page' = [q |-> q, path |-> "set", seen |-> {}, start |-> q.cursor, turn |-> 1,
                res |-> Handle(store, sc.family, q, TRUE, members)]
    /\ sc' = [sc EXCEPT !.phase = "query"]
    /\ UNCHANGED <<store, storeB, ingests, prevStatus, inv>>

\* The client asks for the next page with the cursor it was given.
QFollow ==
    /\ page # Null
    /\ page.path = "zset"
    /\ page.res.nextCursor # NullNum
    /\ LET q == [page.q EXCEPT !.cursor = page.res.nextCursor]
       IN page' = [q |-> q, path |-> "zset",
                   seen |-> page.seen \cup Returned(page.res, sc.family),
                   start |-> page.start, turn |-> 1 - page.turn,
                   res |-> Handle(store, sc.family, q, FALSE, <<>>)]
    /\ UNCHANGED <<store, storeB, ingests, prevStatus, sc, inv>>

\* The same while the sorted-set read keeps throwing.
QFollowFallback(members) ==
    /\ page # Null
    /\ page.path = "set"
    /\ page.res.nextCursor # NullNum
    /\ LET q == [page.q EXCEPT !.cursor = page.res.nextCursor]
       IN page' = [q |-> q, path |-> "set",
                   seen |-> page.seen \cup Returned(page.res, sc.family),
                   start |-> page.start, turn |-> 1 - page.turn,
                   res |-> Handle(store, sc.family, q, TRUE, members)]
    /\ UNCHANGED <<store, storeB, ingests, prevStatus, sc, inv>>

QueryNext ==
    \/ sc.phase = "load" /\ \E in \in QueryLoads(sc.family) : QLoad(in)
    \/ page = Null /\ \E q \in Queries(sc.family) : QQuery(q)
    \/ page = Null /\ \E q \in Queries(sc.family) :
          \E members \in Listings(MembershipSet(store, sc.family)) :
              QQueryFallback(q, members)
    \/ QFollow

SpecQuery == QueryInit /\ [][QueryNext]_vars

(***************************************************************************)
(* SpecWalk: a client walks a listing of a store that no longer changes: a *)
(* first request without cursor, then one request per next cursor it is    *)
(* given, on the path (sorted set or membership set) the first request     *)
(* took.  page.turn tells consecutive requests apart.                      *)
(***************************************************************************)
\* The store after the records of a family were loaded at the given times.
RECURSIVE WalkStore(_, _, _)
WalkStore(family, pdas, times) ==
    IF pdas = <<>> THEN EmptyStore
    ELSE LET p == pdas[Len(pdas)]
             info == CHOOSE i \in (IF family = "vaults" THEN VaultInfos(p)
                                   ELSE PositionInfos(p)) :
                        family = "vaults" =>
                           /\ i.data.status = "Funding"
                           /\ i.data.total_deposited = 2 /\ i.data.payout_num = 0
         IN HandleItem(WalkStore(family, SubSeq(pdas, 1, Len(pdas) - 1), times),
                       SnapshotOf(p, info, times[p]))

WalkPdas(family) ==
    IF family = "vaults" THEN {<<>>, <<1>>, <<1, 2>>, <<1, 2, 3>>}
    ELSE {<<>>, <<11>>, <<11, 12>>, <<11, 12, 13>>}

WalkInit ==
    /\ \E family \in {"vaults", "positions"} :
         \E pdas \in WalkPdas(family) :
            \E times \in [Range(pdas) -> QueryTimes] :
               /\ store = WalkStore(family, pdas, times)
               /\ sc = [phase |-> "query", family |-> family]
    /\ storeB = Null
    /\ ingests = 0
    /\ prevStatus = Null
    /\ inv = Null
    /\ page = Null

\* A client that was given a next cursor goes on to request it.
FollowsOn ==
    \/ QFollow
    \/ page # Null /\ page.path = "set" /\
          \E members \in Listings(MembershipSet(store, sc.family)) :
              QFollowFallback(members)

WalkNext ==
    \/ page = Null /\
          \E q \in {x \in Queries(sc.family) : x.cursor = NullNum /\ x.status = NullStr} :
             QQuery(q)
    \/ page = Null /\
          \E q \in {x \in Queries(sc.family) : x.cursor = NullNum /\ x.status = NullStr} :
             \E members \in Listings(MembershipSet(store, sc.family)) :
                QQueryFallback(q, members)
    \/ QFollow
    \/ page # Null /\ page.path = "set" /\
          \E members \in Listings(MembershipSet(store, sc.family)) :
              QFollowFallback(members)

SpecWalk == WalkInit /\ [][WalkNext]_vars /\ WF_vars(FollowsOn)

\* The sorted set a query reads, and the part of it below the cursor.
IndexOf(st, family, q) ==
    IF family = "vaults"
    THEN st.zAuthorityVaults[<<q.authority, IF q.status # NullStr THEN q.status ELSE "all">>]
    ELSE st.zOwnerPositions[q.owner]

BelowCursor(st, family, q) ==
    {e \in IndexOf(st, family, q) : q.cursor = NullNum \/ e.score < q.cursor}

EntryOf(rec, family) == [member |-> PdaOf(rec, family), score |-> rec.updatedAtEpoch]

DistinctScores(st, family, q) ==
    \A e, f \in IndexOf(st, family, [q EXCEPT !.status = NullStr]) :
        e.member # f.member => e.score # f.score

\* C8: for a membership set of at most 1000 members and every combination
\* of status filter, cursor and limit, the membership-set path returns the
\* same items in the same order, and the same nextCursor, as the sorted-set
\* path over the same stored records.  Stated for stores in which no two
\* records share a score, where the order of the fallback is determined.
C8_FallbackEqualsOrdered ==
    (/\ page # Null
     /\ page.path = "set"
     /\ Cardinality(MembershipSet(store, sc.family)) <= MAX_SET_SIZE
     /\ DistinctScores(store, sc.family, page.q))
    => LET ordered == Handle(store, sc.family, page.q, FALSE, <<>>)
       IN /\ page.res.items = ordered.items
          /\ page.res.nextCursor = ordered.nextCursor

(***************************************************************************)
(* SpecBatch: one webhook request carrying a batch of payload items, on a  *)
(* seeded store.  The request is validated as a whole, then its items are  *)
(* processed in order; an awaited call that throws (the account fetch, a   *)
(* store command, the activity MULTI) leaves the item loop and lands in    *)
(* the handler's catch block.                                              *)
(*   sc = [phase, items, idx, activities, reached]: the payload, the index *)
(*   of the item being processed, activitiesProcessed, and the indices of  *)
(*   the items the loop has got to.                                        *)
(*   page = [code, activities]: the response.                              *)
(***************************************************************************)
MaxBatch == 2

\* A payload item: anything JSON can hold.  An object item carries the
\* fields the schema looks at; infos and now are what the environment hands
\* the processing of that item.
ItemOf(in) ==
    [isObject |-> TRUE, signatures |-> <<in.signature>>, slot |-> in.slot,
     blockTime |-> in.blockTime, accountKeys |-> in.accountKeys,
     logMessages |-> in.logMessages, infos |-> in.infos, now |-> in.now]

InputOf(item) ==
    [signature |-> item.signatures[1], slot |-> item.slot,
     blockTime |-> item.blockTime, accountKeys |-> item.accountKeys,
     logMessages |-> item.logMessages, infos |-> item.infos, now |-> item.now]

\* rawWebhookPayloadSchema: slot a non-negative integer, at least one
\* signature; the other fields are well-typed in every item of the model.
rawWebhookPayloadSchema(item) ==
    /\ item.slot >= 0
    /\ Len(item.signatures) >= 1

\* Events of vault 1 and its position, all accounts decodable.
BatchInputs ==
    {in \in ValidInputs :
        /\ in.accountKeys \in {<<1>>, <<1, 11>>}
        /\ \A k \in Range(in.accountKeys) : Decodable(in.infos[k])
        /\ in.infos[1].data.status = "Funding"
        /\ in.infos[1].data.total_deposited = 2
        /\ in.blockTime = NullNum
        /\ in.logMessages \in {<<>>, <<"Instruction: Deposit">>}}

\* Well-formed items, items the schema rejects (no slot, no signature), an
\* item with an empty signature and a non-object item.
NotAnObject == [ItemOf(CHOOSE in \in BatchInputs : TRUE) EXCEPT !.isObject = FALSE]

BatchItems ==
    {ItemOf(in) : in \in BatchInputs}
    \cup {[ItemOf(in) EXCEPT !.slot = NullNum] :
             in \in {i \in BatchInputs : i.accountKeys = <<1>> /\ i.slot = 1}}
    \cup {[ItemOf(in) EXCEPT !.signatures = <<>>] :
             in \in {i \in BatchInputs : i.accountKeys = <<1>> /\ i.slot = 2
                                         /\ i.logMessages = <<>>}}
    \cup {[ItemOf(in) EXCEPT !.signatures = <<"">>] :
             in \in {i \in BatchInputs : i.accountKeys = <<1>> /\ i.slot = 2
                                         /\ i.logMessages = <<>>}}
    \cup {NotAnObject}

Batches == UNION {[1..n -> BatchItems] : n \in 1..MaxBatch}

ValidationFailsOnFirst(items) ==
    items[1].isObject /\ ~rawWebhookPayloadSchema(items[1])

\* The validation loop: non-object items are passed over, the first object
\* item the schema rejects ends the request.
ValidationFails(items) ==
    \E i \in 1..Len(items) : items[i].isObject /\ ~rawWebhookPayloadSchema(items[i])

\* Items the processing loop passes over before doing anything.
Skipped(item) ==
    ~item.isObject \/ item.signatures = <<>> \/ item.signatures[1] = ""

\* activitiesProcessed increments of one item.
ActivitiesOfItem(st, in) == FirstInserts(st, Flatten(ItemCmds(st, in)))

BatchInit ==
    /\ store = EmptyStore
    /\ storeB = EmptyStore
    /\ ingests = 0
    /\ prevStatus = Null
    /\ sc = [phase |-> "seed", items |-> <<>>, idx |-> 0, activities |-> 0,
             reached |-> {}]
    /\ inv = Null
    /\ page = Null

BSeed(in) ==
    /\ sc.phase = "seed"
    /\ ingests = 0
    /\ store' = HandleItem(store, in)
    /\ ingests' = ingests + 1
    /\ UNCHANGED <<storeB, prevStatus, sc, inv, page>>

\* The request arrives: validation of every item, then either 400 or the
\* start of the processing loop.  storeB keeps the store as the request
\* found it.
BReceive(items) ==
    /\ sc.phase = "seed"
    /\ storeB' = store
    /\ IF ValidationFails(items)
         THEN /\ sc' = [sc EXCEPT !.phase = "answered", !.items = items]
              /\ page' = [code |-> 400, activities |-> 0]
         ELSE /\ sc' = [sc EXCEPT !.phase = "loop", !.items = items, !.idx = 1]
              /\ page' = page
    /\ UNCHANGED <<store, ingests, prevStatus, inv>>

\* One iteration of the item loop that runs to its end.
BItem ==
    /\ sc.phase = "loop"
    /\ sc.idx <= Len(sc.items)
    /\ LET item == sc.items[sc.idx]
       IN IF Skipped(item)
            THEN /\ store' = store
                 /\ sc' = [sc EXCEPT !.idx = @ + 1, !.reached = @ \cup {sc.idx}]
            ELSE /\ store' = HandleItem(store, InputOf(item))
                 /\ sc' = [sc EXCEPT !.idx = @ + 1, !.reached = @ \cup {sc.idx},
                                     !.activities = @ + ActivitiesOfItem(store, InputOf(item))]
    /\ UNCHANGED <<storeB, ingests, prevStatus, inv, page>>

\* One iteration in which an awaited call throws after k of the item's
\* commands took effect (k = 0: the account fetch threw, or the first
\* command did).  The exception leaves the loop; the catch block answers 500.
BItemThrows ==
    /\ sc.phase = "loop"
    /\ sc.idx <= Len(sc.items)
    /\ ~Skipped(sc.items[sc.idx])
    /\ LET cmds == ItemCmds(store, InputOf(sc.items[sc.idx]))
       IN \E k \in 0..Len(cmds) :
             /\ k = 0 \/ k < Len(cmds)
             /\ store' = ApplyCmds(store, SubSeq(cmds, 1, k))
    /\ sc' = [sc EXCEPT !.phase = "answered", !.reached = @ \cup {sc.idx}]
    /\ page' = [code |-> 500, activities |-> 0]
    /\ UNCHANGED <<storeB, ingests, prevStatus, inv>>

\* The loop is over: 200 with the processed counts.
BAnswer ==
    /\ sc.phase = "loop"
    /\ sc.idx > Len(sc.items)
    /\ sc' = [sc EXCEPT !.phase = "answered"]
    /\ page' = [code |-> 200, activities |-> sc.activities]
    /\ UNCHANGED <<store, storeB, ingests, prevStatus, inv>>

BatchNext ==
    \/ sc.phase = "seed" /\ \E in \in OrderSeeds : BSeed(in)
    \/ sc.phase = "seed" /\ \E items \in Batches : BReceive(items)
    \/ BItem
    \/ BItemThrows
    \/ BAnswer

SpecBatch == BatchInit /\ [][BatchNext]_vars

\* C11: a failure (account-fetch error, store error, activity-indexing
\* error) while processing one item of a batch is scoped to that item: when
\* the request has been answered, validation having passed, the item loop
\* has got to every item it does not pass over, those after a failed item
\* included.
C11_FailureScopedToItem ==
    (sc.phase = "answered" /\ page.code # 400) =>
        \A i \in 1..Len(sc.items) : ~Skipped(sc.items[i]) => i \in sc.reached

(***************************************************************************)
(* Activity timelines.                                                     *)
(***************************************************************************)
\* The entries an activity key has in the vault and owner timelines.
TimelineEntries(st, k) ==
    [vault |-> [p \in VaultPdas |-> {e \in st.zVaultActivity[p] : e.member = k}],
     owner |-> [o \in Owners |-> {e \in st.zOwnerActivity[o] : e.member = k}]]

\* C12: an activity's key is added to the vault timeline and the owner
\* timeline only by the call that performed the first insert of the record:
\* a step that finds the activity key already stored leaves the timeline
\* entries of that key as they were.
C12_TimelineOnlyOnFirstInsert ==
    [][\A k \in DOMAIN store.activity :
          TimelineEntries(store', k) = TimelineEntries(store, k)]_vars

(***************************************************************************)
(* SpecSettle: the amounts the handler derives from cached records.  The   *)
(* store starts with one cached vault and one cached position of that      *)
(* vault, their counters drawn from 0..MaxAmount; then one claim event     *)
(* that closes the position, or one deposit event, is processed.           *)
(*   sc = [phase, in, pre]: the event and the store it was delivered on.   *)
(***************************************************************************)
MaxAmount == 3

Amounts == 0..MaxAmount

\* Cached vault records of vault 1.  Records written by the current
\* normalizer carry a payout ratio (0/0 until the vault matures); records
\* written before the ratio was added to the DTO carry none.
CachedVaults ==
    {[vaultPda |-> 1, authority |-> AuthorityOf(1), status |-> s,
      totalDeposited |-> 2, totalClaimed |-> 0, payoutNum |-> r[1],
      payoutDen |-> r[2], slot |-> 1, updatedAt |-> 1, updatedAtEpoch |-> 1] :
        s \in {"Active", "Matured", "Canceled"},
        r \in (Amounts \X Amounts) \cup {<<NullNum, NullNum>>}}
    \cup
    {[vaultPda |-> 1, authority |-> AuthorityOf(1), status |-> "Funding",
      totalDeposited |-> d, totalClaimed |-> 0, payoutNum |-> 0,
      payoutDen |-> 0, slot |-> 1, updatedAt |-> 1, updatedAtEpoch |-> 1] :
        d \in Amounts}

CachedPositions ==
    {[positionPda |-> 11, vaultPda |-> VaultOf(11), owner |-> OwnerOf(11),
      deposited |-> d, claimed |-> 0, slot |-> 1, updatedAt |-> 1,
      updatedAtEpoch |-> 1] : d \in Amounts}

\* The store as the upserts of these records leave it (Null: no record).
SettleStore(vault, position) ==
    ApplyCmds(EmptyStore,
        (IF vault = Null THEN <<>>
         ELSE <<CmdSet(kVaultJson(vault.vaultPda), vault),
                CmdSAdd(kVaultsSet, vault.vaultPda),
                CmdSAdd(kAuthorityVaults(vault.authority), vault.vaultPda),
                CmdZAdd(kAuthorityVaultsByUpdated(vault.authority, "all"),
                        vault.updatedAtEpoch, vault.vaultPda),
                CmdZAdd(kAuthorityVaultsByUpdated(vault.authority, vault.status),
                        vault.updatedAtEpoch, vault.vaultPda)>>)
        \o (IF position = Null THEN <<>>
            ELSE <<CmdSet(kPositionJson(position.positionPda), position),
                   CmdSAdd(kOwnerPositions(position.owner), position.positionPda),
                   CmdZAdd(kOwnerPositionsByUpdated(position.owner),
                           position.updatedAtEpoch, position.positionPda)>>))

\* A claim that closes position 11: the position resolves to absent; the
\* transaction also carries the parent vault (live) or another program
\* account.
SettleClaims ==
    {in \in AllInputs :
        /\ in.signature = "sigA" /\ in.now = 2 /\ in.slot = 2
        /\ in.blockTime = NullNum
        /\ in.logMessages = <<"Instruction: Claim">>
        /\ in.accountKeys \in {<<1, 11>>, <<11, 21>>}
        /\ in.infos[11] = Null
        /\ 1 \in Range(in.accountKeys) => in.infos[1] # Null}

\* Account infos of a deposit: counters anywhere in 0..MaxAmount.
DepositVaultInfos ==
    {[owner |-> ProgramId, executable |-> FALSE, hasData |-> TRUE, layout |-> "Vault",
      data |-> [authority |-> AuthorityOf(1), status |-> "Funding",
                total_deposited |-> d, total_claimed |-> 0,
                payout_num |-> 0, payout_den |-> 0]] : d \in Amounts}

DepositPositionInfos ==
    {[owner |-> ProgramId, executable |-> FALSE, hasData |-> TRUE, layout |-> "Position",
      data |-> [vault |-> VaultOf(11), owner |-> OwnerOf(11),
                deposited |-> d, claimed |-> 0]] : d \in Amounts}

SettleDeposits ==
    UNION {
      {[signature |-> "sigA", slot |-> slot, blockTime |-> NullNum,
        accountKeys |-> keys, logMessages |-> <<"Instruction: Deposit">>,
        infos |-> infos, now |-> 2] :
          slot \in Slots,
          infos \in {f \in [Range(keys) -> DepositVaultInfos \cup DepositPositionInfos] :
                        /\ 1 \in Range(keys) => f[1] \in DepositVaultInfos
                        /\ 11 \in Range(keys) => f[11] \in DepositPositionInfos}} :
      keys \in {<<1>>, <<11>>, <<1, 11>>}}

SettleInit ==
    /\ store \in {SettleStore(v, p) : v \in CachedVaults \cup {Null},
                                      p \in CachedPositions \cup {Null}}
    /\ storeB = Null
    /\ ingests = 0
    /\ prevStatus = Null
    /\ sc = [phase |-> "cached", in |-> Null, pre |-> Null]
    /\ inv = Null
    /\ page = Null

SClaim(in) ==
    /\ sc.phase = "cached"
    /\ store' = HandleItem(store, in)
    /\ sc' = [phase |-> "claimed", in |-> in, pre |-> store]
    /\ UNCHANGED <<storeB, ingests, prevStatus, inv, page>>

SDeposit(in) ==
    /\ sc.phase = "cached"
    /\ store' = HandleItem(store, in)
    /\ sc' = [phase |-> "deposited", in |-> in, pre |-> store]
    /\ UNCHANGED <<storeB, ingests, prevStatus, inv, page>>

\* A later transaction, with its own signature, that lists the same accounts
\* and logs a claim; pre is the store the first claim left.
SClaimAgain(signature) ==
    /\ sc.phase = "claimed"
    /\ signature # sc.in.signature
    /\ store' = HandleItem(store, [sc.in EXCEPT !.signature = signature])
    /\ sc' = [phase |-> "reclaimed", in |-> [sc.in EXCEPT !.signature = signature],
              pre |-> store]
    /\ UNCHANGED <<storeB, ingests, prevStatus, inv, page>>

SettleNext ==
    \/ sc.phase = "cached" /\ \E in \in SettleClaims : SClaim(in)
    \/ sc.phase = "cached" /\ \E in \in SettleDeposits : SDeposit(in)
    \/ sc.phase = "claimed" /\ \E signature \in Signatures : SClaimAgain(signature)

SpecSettle == SettleInit /\ [][SettleNext]_vars

\* floor(d * num / den) for den > 0, by its defining inequalities.
Floor(d, num, den) ==
    CHOOSE q \in 0..(d * num) : q * den <= d * num /\ d * num < (q + 1) * den

ExpectedClaim(d, vault) ==
    IF vault # Null /\ vault.status = "Canceled" THEN d
    ELSE IF vault # Null /\ vault.payoutDen > 0
      THEN Floor(d, vault.payoutNum, vault.payoutDen)
    ELSE d

\* C13: when a claim closes a position whose cached deposited amount D is
\* greater than 0, the stored claimed amount is D if the parent vault's
\* cached status is Canceled; otherwise floor(D * payoutNum / payoutDen) when
\* the cached vault record has payoutDen > 0; otherwise (no vault record, or
\* no usable payout ratio) D.
C13_SettlementAmount ==
    (/\ sc.phase = "claimed"
     /\ sc.pre.positionJson[11] # Null
     /\ sc.pre.positionJson[11].deposited > 0)
    => store.positionJson[11].claimed =
          ExpectedClaim(sc.pre.positionJson[11].deposited,
                        sc.pre.vaultJson[VaultOf(11)])

\* A position was settled against a matured vault whose ratio does not
\* divide the deposit: the stored amount is the quotient rounded down.
C13_RoundedDown ==
    /\ sc.phase = "claimed"
    /\ sc.pre.positionJson[11] # Null
    /\ sc.pre.vaultJson[1] # Null
    /\ sc.pre.vaultJson[1].status = "Matured"
    /\ sc.pre.vaultJson[1].payoutDen > 0
    /\ (sc.pre.positionJson[11].deposited * sc.pre.vaultJson[1].payoutNum)
          % sc.pre.vaultJson[1].payoutDen # 0
    /\ store.positionJson[11].claimed * sc.pre.vaultJson[1].payoutDen
          < sc.pre.positionJson[11].deposited * sc.pre.vaultJson[1].payoutNum
    /\ store.positionJson[11].slot = sc.in.slot

\* The counter difference a deposit shows against the records stored before
\* it, a missing record counting as 0: the position's when it is positive,
\* else the vault's when it is positive, else no amount.
ExpectedDepositAmount(in, pre) ==
    LET keys == Range(in.accountKeys)
        stored(rec, counter) == IF rec = Null THEN 0 ELSE counter
        positionDelta ==
            IF 11 \in keys
              THEN in.infos[11].data.deposited
                   - stored(pre.positionJson[11], pre.positionJson[11].deposited)
              ELSE 0
        vaultDelta ==
            IF 1 \in keys
              THEN in.infos[1].data.total_deposited
                   - stored(pre.vaultJson[1], pre.vaultJson[1].totalDeposited)
              ELSE 0
    IN IF positionDelta > 0 THEN positionDelta
       ELSE IF vaultDelta > 0 THEN vaultDelta
       ELSE NullNum

\* C14: the amount recorded on a deposit activity is the new deposited
\* counter minus the deposited counter of the record that was stored before
\* this event's upsert; it is absent when that difference is zero or
\* negative; and it is the new total when no record was stored before this
\* event.  The position's counter is used when the event carries the
\* position and its difference is positive, the vault's otherwise.
C14_DepositAmountIsDelta ==
    sc.phase = "deposited" =>
        LET key == <<sc.in.signature, "deposit", sc.in.slot>>
        IN /\ key \in DOMAIN store.activity
           /\ store.activity[key].amount = ExpectedDepositAmount(sc.in, sc.pre)

\* A deposit on a vault with a stored record: the recorded amount is the
\* increase, smaller than the new total.
C14_DeltaRecorded ==
    /\ sc.phase = "deposited"
    /\ sc.in.accountKeys = <<1>>
    /\ sc.pre.vaultJson[1] # Null
    /\ sc.pre.vaultJson[1].totalDeposited > 0
    /\ sc.in.infos[1].data.total_deposited > sc.pre.vaultJson[1].totalDeposited
    /\ store.activity[<<sc.in.signature, "deposit", sc.in.slot>>].amount
          = sc.in.infos[1].data.total_deposited - sc.pre.vaultJson[1].totalDeposited

(***************************************************************************)
(* Properties of SpecBatch.                                                *)
(***************************************************************************)
\* C15: if any object item of a webhook payload fails schema validation, the
\* handler answers 400 and performs no store write for any item of that
\* payload, valid items that come before the invalid one included.
C15_InvalidBatchRejectedWhole ==
    (\E i \in 1..Len(sc.items) :
        sc.items[i].isObject /\ ~rawWebhookPayloadSchema(sc.items[i]))
    => /\ sc.phase = "answered"
       /\ page.code = 400
       /\ store = storeB

\* A payload whose first item is well-formed and would have written, and
\* whose second item the schema rejects, was answered 400.
C15_ValidBeforeInvalid ==
    /\ sc.phase = "answered"
    /\ Len(sc.items) = 2
    /\ sc.items[1].isObject
    /\ rawWebhookPayloadSchema(sc.items[1])
    /\ ~Skipped(sc.items[1])
    /\ HandleItem(store, InputOf(sc.items[1])) # store
    /\ sc.items[2].isObject
    /\ ~rawWebhookPayloadSchema(sc.items[2])
    /\ page.code = 400
    /\ store = storeB

(***************************************************************************)
(* Properties of the fallback path of SpecQuery.                           *)
(***************************************************************************)
\* C16: a list query reads the unordered membership set instead of the
\* ordered index exactly when the ordered index has not been built for the
\* requested scope: an ordered index that does not exist while the
\* membership set is non-empty is served from the membership set, and a
\* query is served from the membership set only when the ordered index
\* does not exist (an exception of the ordered-index read is not the
\* signal).
C16_FallbackOnlyWhenNotBuilt ==
    page # Null =>
        LET notBuilt == IndexOf(store, sc.family, page.q) = {}
        IN /\ (notBuilt /\ MembershipSet(store, sc.family) # {})
                 => page.path = "set"
           /\ page.path = "set" => notBuilt

(***************************************************************************)
(* SpecCap: the membership-set fallback on sets around MAX_SET_SIZE.  The  *)
(* store holds the records and the membership set of one authority's       *)
(* vaults or one owner's positions, written before the sorted sets were    *)
(* built; the list endpoint is queried while the sorted-set read throws.   *)
(*   sc = [phase, family]                                                  *)
(***************************************************************************)
MaxOver == 1

SetSizes == (MAX_SET_SIZE - MaxOver)..(MAX_SET_SIZE + MaxOver)

CapVault(p) ==
    toVaultDTO(p, [authority |-> "A1",
                   status |-> IF p % 2 = 0 THEN "Funding" ELSE "Active",
                   total_deposited |-> 2, total_claimed |-> 0,
                   payout_num |-> 0, payout_den |-> 0], 1, p, 2)

CapPosition(p) ==
    toPositionDTO(p, [vault |-> 1, owner |-> "O1", deposited |-> 2, claimed |-> 0],
                  1, p, 2)

CapPdas(family, n) == IF family = "vaults" THEN 1..n ELSE 11..(10 + n)

CapStore(family, n) ==
    IF family = "vaults"
    THEN [EmptyStore EXCEPT !.vaultJson = [p \in CapPdas(family, n) |-> CapVault(p)],
                            !.vaultsSet = CapPdas(family, n),
                            !.authorityVaults = [a \in Authorities |-> CapPdas(family, n)]]
    ELSE [EmptyStore EXCEPT !.positionJson = [p \in CapPdas(family, n) |-> CapPosition(p)],
                            !.ownerPositions = [o \in Owners |-> CapPdas(family, n)]]

\* SMEMBERS, listing the set from the highest address down.
CapMembers(st, family) ==
    LET n == Cardinality(MembershipSet(st, family))
        first == IF family = "vaults" THEN 1 ELSE 11
    IN [i \in 1..n |-> first + n - i]

CapInit ==
    /\ \E f \in {"vaults", "positions"}, n \in SetSizes :
          /\ store = CapStore(f, n)
          /\ sc = [phase |-> "cap", family |-> f]
    /\ storeB = Null
    /\ ingests = 0
    /\ prevStatus = Null
    /\ inv = Null
    /\ page = Null

CapQuery(q) ==
    /\ page = Null
    /\ page' = [q |-> q, path |-> "set", seen |-> {},
                res |-> Handle(store, sc.family, q, TRUE, CapMembers(store, sc.family))]
    /\ UNCHANGED <<store, storeB, ingests, prevStatus, sc, inv>>

CapNext == page = Null /\ \E q \in Queries(sc.family) : CapQuery(q)

SpecCap == CapInit /\ [][CapNext]_vars

\* C17: on the membership-set fallback path a set of more than 1000 members
\* makes the query fail with a 503 that returns no items, and a set of 1000
\* members or fewer, exactly 1000 included, is served: the answer is a 200
\* whose page, for a query without status filter, is filled from the set.
C17_FallbackCap ==
    (page # Null /\ page.path = "set") =>
        LET size == Cardinality(MembershipSet(store, sc.family))
        IN /\ size > 1000 => page.res.code = 503 /\ page.res.items = <<>>
           /\ size <= 1000 =>
                 /\ page.res.code = 200
                 /\ page.q.status = NullStr => Len(page.res.items) = page.q.limit

\* A set of exactly 1000 members was served.
C17_ServedAtCap ==
    /\ page # Null
    /\ page.path = "set"
    /\ Cardinality(MembershipSet(store, sc.family)) = 1000
    /\ page.res.code = 200
    /\ page.res.items # <<>>

(***************************************************************************)
(* SpecChain: one vault lives on chain and moves through its statuses, one *)
(* transaction per slot; closing deletes the account.  Every transaction   *)
(* is delivered to the webhook at least once, at any later time and in any *)
(* order.  An invocation first fetches the account as it is on chain at    *)
(* that moment and later writes to the store; invocations overlap freely.  *)
(*   sc = [phase, status, slot, events]: the chain and the transactions    *)
(*   it has produced;  inv: the items fetched and not yet processed.       *)
(***************************************************************************)
MaxDeliver == 3

Transitions ==
    {<<"Funding", "Active">>, <<"Active", "Matured">>, <<"Active", "Canceled">>,
     <<"Matured", "Closed">>, <<"Canceled", "Closed">>}

\* The log line of the instruction that moves a vault into a status; the
\* cancelling instruction matches no log pattern.
LogOf(status) ==
    CASE status = "Funding" -> <<"Instruction: InitializeVault">>
      [] status = "Active" -> <<"Instruction: FinalizeFunding">>
      [] status = "Matured" -> <<"Instruction: MatureVault">>
      [] status = "Canceled" -> <<>>
      [] status = "Closed" -> <<"Instruction: CloseVault">>

\* getMultipleAccounts on the vault address: null once the account is closed.
ChainInfo(status) ==
    IF status = "Closed" THEN Null
    ELSE CHOOSE i \in VaultInfos(1) :
            /\ i.data.status = status
            /\ <<i.data.total_deposited, i.data.payout_num, i.data.payout_den>>
                 = (IF status = "Matured" THEN <<2, 3, 2>> ELSE <<2, 0, 0>>)

\* The payload item of a transaction, with the RPC answer of the moment: the
\* vault and a program-owned account that is neither a Vault nor a Position.
ChainItem(e, status) ==
    [signature |-> "sigA", slot |-> e.slot, blockTime |-> e.slot,
     accountKeys |-> <<1, 21>>, logMessages |-> e.log,
     infos |-> (1 :> ChainInfo(status)) @@ (21 :> OtherInfo), now |-> 2]

ChainInit ==
    /\ store = EmptyStore
    /\ storeB = Null
    /\ ingests = 0
    /\ prevStatus = StatusesOf(EmptyStore)
    /\ sc = [phase |-> "chain", status |-> "Funding", slot |-> 1,
             events |-> {[slot |-> 1, log |-> LogOf("Funding")]}]
    /\ inv = {}
    /\ page = Null

ChainStep(t) ==
    /\ <<sc.status, t>> \in Transitions
    /\ sc' = [sc EXCEPT !.status = t, !.slot = @ + 1,
                        !.events = @ \cup {[slot |-> sc.slot + 1, log |-> LogOf(t)]}]
    /\ UNCHANGED <<store, storeB, ingests, prevStatus, inv, page>>

ChFetch(e) ==
    /\ ingests < MaxDeliver
    /\ inv' = inv \cup {ChainItem(e, sc.status)}
    /\ ingests' = ingests + 1
    /\ UNCHANGED <<store, storeB, prevStatus, sc, page>>

ChProcess(in) ==
    /\ store' = HandleItem(store, in)
    /\ prevStatus' = StatusesOf(store)
    /\ inv' = inv \ {in}
    /\ UNCHANGED <<storeB, ingests, sc, page>>

ChainNext ==
    \/ \E t \in Statuses : ChainStep(t)
    \/ ingests < MaxDeliver /\ \E e \in sc.events : ChFetch(e)
    \/ \E in \in inv : ChProcess(in)

SpecChain == ChainInit /\ [][ChainNext]_vars

\* C21: the stored status of a vault changes only along the transitions
\* Funding to Active, Active to Matured or Canceled, and Matured or Canceled
\* to Closed; once the stored status is Closed, no later ingest changes it.
C21_StatusFollowsTransitions ==
    [][\A p \in VaultPdas :
          LET old == store.vaultJson[p]
              new == store'.vaultJson[p]
          IN (old # Null /\ new # Null /\ new.status # old.status)
                => <<old.status, new.status>> \in Transitions]_vars

(***************************************************************************)
(* Status-filtered queries on the stores two overlapping invocations       *)
(* leave behind (SpecConc).                                                *)
(***************************************************************************)
\* Every item of the answer carries the requested status, and so does the
\* record stored for it.
OnlyStatus(st, res, status) ==
    \A i \in 1..Len(res.items) :
        /\ res.items[i].status = status
        /\ getJSON(st, kVaultJson(res.items[i].vaultPda)).status = status

\* C22: a status-filtered vault query returns only vaults whose stored
\* status equals the requested status, on the ordered path (the per-status
\* index holds only such vaults, nothing is filtered) and on the fallback
\* path (the loaded records are filtered by status).  Stated for the stores
\* in which no invocation is mid-way.
C22_StatusFilterExact ==
    (sc.phase # "run" \/ BothDone) =>
        \A q \in Queries("vaults") :
            q.status # NullStr =>
                /\ OnlyStatus(store, Handle(store, "vaults", q, FALSE, <<>>), q.status)
                /\ \A members \in Listings(MembershipSet(store, "vaults")) :
                     OnlyStatus(store, Handle(store, "vaults", q, TRUE, members), q.status)

(***************************************************************************)
(* SpecCache: the answer of a list endpoint to a conditional request.  The *)
(* body is a page of the list; cfg.cacheTtl is whatever CACHE_TTL parses   *)
(* to.  The SHA-1 digest is taken as collision-free: the validator is      *)
(* represented by the serialized body it was computed from.                *)
(*   sc = [phase, body, ifNoneMatch, cacheTtl], ifNoneMatch Null when the  *)
(*   header is absent;  page: the response.                                *)
(***************************************************************************)
MaxTtl == 2

\* createEtag: W/"<first 16 hex digits of sha1(JSON.stringify(body))>".
createEtag(body) == [weak |-> TRUE, digestOf |-> body]

CacheControl(seconds) == [sMaxage |-> seconds, staleWhileRevalidate |-> seconds * 2]

\* json(res, status, body, etag, cacheSeconds): the header is set only for
\* a truthy cacheSeconds.
json(status, body, etag, cacheSeconds) ==
    [code |-> status, body |-> body, etag |-> etag,
     cacheControl |-> IF cacheSeconds # 0 THEN CacheControl(cacheSeconds) ELSE Null]

\* The tail of the GET handlers, from the body on.
Respond(body, ifNoneMatch, cacheTtl) ==
    LET etag == createEtag(body)
    IN IF ifNoneMatch = etag
       THEN [code |-> 304, body |-> Null, etag |-> etag,
             cacheControl |-> CacheControl(cacheTtl)]
       ELSE json(200, body, etag, cacheTtl)

\* const body = { items, nextCursor, total }
BodyOf(res) == [items |-> res.items, nextCursor |-> res.nextCursor, total |-> res.total]

CacheBodies ==
    {BodyOf(PageOf(l, n)) : l \in {<<>>, <<CapVault(1)>>, <<CapVault(2)>>,
                                   <<CapVault(2), CapVault(1)>>},
                            n \in 1..MaxLimit}

CacheInit ==
    /\ store = EmptyStore
    /\ storeB = Null
    /\ ingests = 0
    /\ prevStatus = Null
    /\ \E b \in CacheBodies, t \in 0..MaxTtl,
          m \in {Null} \cup {createEtag(c) : c \in CacheBodies} :
          sc = [phase |-> "request", body |-> b, ifNoneMatch |-> m, cacheTtl |-> t]
    /\ inv = Null
    /\ page = Null

CacheRespond ==
    /\ page = Null
    /\ page' = Respond(sc.body, sc.ifNoneMatch, sc.cacheTtl)
    /\ sc' = [sc EXCEPT !.phase = "answered"]
    /\ UNCHANGED <<store, storeB, ingests, prevStatus, inv>>

CacheNext == CacheRespond

SpecCache == CacheInit /\ [][CacheNext]_vars

\* C23: the validator depends on the response body only; the handler answers
\* 304 with no body exactly when the request's If-None-Match equals the
\* validator of the current body, otherwise 200 with the full body and the
\* current validator, and both answers carry the same Cache-Control
\* directives.
C23_ConditionalAnswer ==
    sc.phase = "answered" =>
        LET etag == createEtag(sc.body)
            matches == sc.ifNoneMatch = etag
            other == Respond(sc.body, IF matches THEN Null ELSE etag, sc.cacheTtl)
        IN /\ page.etag = etag
           /\ page.code = 304 <=> matches
           /\ page.code = 304 => page.body = Null
           /\ page.code # 304 => page.code = 200 /\ page.body = sc.body
           /\ page.cacheControl = other.cacheControl

(***************************************************************************)
(* SpecAuth: one request to POST /api/webhooks/helius, from the method     *)
(* check to the answer.  A request carries an Authorization header, an     *)
(* X-Helius-Signature header that is absent, wrong or the HMAC-SHA256 of   *)
(* the raw body under the secret, and a body.                              *)
(*   sc = [phase, req];  page = [code, fetched]: the answer and whether    *)
(*   the handler got as far as fetching accounts.                          *)
(***************************************************************************)
heliusSecret == <<"k", "e", "y">>

\* <<>> is a missing (or empty) Authorization header.
AuthTokens == {<<>>, heliusSecret, <<"k", "e", "x">>, <<"k", "e">>, <<"k", "e", "y", "s">>}

HmacStates == {"absent", "invalid", "valid"}

BodyKinds == {"notJson", "ping", "item"}

Requests ==
    {[method |-> m, tooLarge |-> l, authorization |-> t, heliusSignature |-> h,
      body |-> b, in |-> in] :
        m \in {"POST", "GET"}, l \in BOOLEAN, t \in AuthTokens, h \in HmacStates,
        b \in BodyKinds, in \in BatchInputs}

\* Buffer lengths are compared first; timingSafeEqual compares the bytes.
TokenAccepted(token) ==
    /\ token # <<>>
    /\ Len(token) = Len(heliusSecret)
    /\ token = heliusSecret

\* The status the handler returns before the item loop, or 0 when it goes on
\* to process the items.
Preamble(req) ==
    IF req.method # "POST" THEN 405
    ELSE IF req.tooLarge THEN 413
    ELSE IF ~TokenAccepted(req.authorization) THEN 401
    ELSE IF req.body = "notJson" THEN 400
    ELSE IF req.body = "ping" THEN 200
    ELSE IF ValidationFails(<<ItemOf(req.in)>>) THEN 400
    ELSE 0

AuthInit ==
    /\ store = EmptyStore
    /\ storeB = EmptyStore
    /\ ingests = 0
    /\ prevStatus = Null
    /\ sc = [phase |-> "listening", req |-> Null]
    /\ inv = Null
    /\ page = Null

AReject(req) ==
    /\ sc.phase = "listening"
    /\ Preamble(req) # 0
    /\ sc' = [phase |-> "answered", req |-> req]
    /\ page' = [code |-> Preamble(req), fetched |-> FALSE]
    /\ UNCHANGED <<store, storeB, ingests, prevStatus, inv>>

AProcess(req) ==
    /\ sc.phase = "listening"
    /\ Preamble(req) = 0
    /\ store' = HandleItem(store, req.in)
    /\ ingests' = ingests + 1
    /\ sc' = [phase |-> "answered", req |-> req]
    /\ page' = [code |-> 200, fetched |-> TRUE]
    /\ UNCHANGED <<storeB, prevStatus, inv>>

AuthNext ==
    \/ sc.phase = "listening" /\ \E req \in Requests : AReject(req)
    \/ sc.phase = "listening" /\ \E req \in Requests : AProcess(req)

SpecAuth == AuthInit /\ [][AuthNext]_vars

\* C24: the webhook processes a request only if it carries both a valid
\* HMAC-SHA256 signature of the raw body in X-Helius-Signature and a token
\* equal to the configured secret; any other request is answered 401 before
\* any account fetch or store write.
C24_HmacAndToken ==
    sc.phase = "answered" =>
        LET authentic == /\ sc.req.heliusSignature = "valid"
                         /\ sc.req.authorization = heliusSecret
        IN /\ page.fetched => authentic
           /\ ~authentic => page.code = 401 /\ ~page.fetched /\ store = storeB

(***************************************************************************)
(* SpecDecode: events whose account list mixes a vault, its position and a *)
(* program-owned account of another layout, in any order, processed one at *)
(* a time.  storeB is what the same event would have left, from the same   *)
(* store, had the account of the other layout not been listed.             *)
(*   sc = [other, decoded, slot, pre]: whether the latest event listed     *)
(*   such an account, the addresses it decoded, its slot, and the store it *)
(*   found.                                                                *)
(***************************************************************************)
DecodeKeyLists ==
    {<<21, 1>>, <<1, 21, 11>>, <<21>>}

DecodeInputs ==
    UNION {
      {[signature |-> "sigA", slot |-> slot, blockTime |-> NullNum, accountKeys |-> keys,
        logMessages |-> logs, infos |-> infos, now |-> 2] :
          slot \in Slots, logs \in IngestLogs, infos \in InfosFor(keys)} :
      keys \in DecodeKeyLists}

WithoutUndecodable(in) ==
    [in EXCEPT !.accountKeys =
        SelectSeq(in.accountKeys,
                  LAMBDA k : ~(IsProgramAccount(in.infos[k]) /\ ~Decodable(in.infos[k])))]

DecodedPdas(in) ==
    {k \in Range(in.accountKeys) : Decodable(in.infos[k])}

DecodeInit ==
    /\ store = EmptyStore
    /\ storeB = EmptyStore
    /\ ingests = 0
    /\ prevStatus = StatusesOf(EmptyStore)
    /\ sc = [other |-> FALSE, decoded |-> {}, slot |-> 0, pre |-> EmptyStore]
    /\ inv = Null
    /\ page = Null

DIngest(in) ==
    /\ ingests < MaxIngest
    /\ store' = HandleItem(store, in)
    /\ storeB' = HandleItem(store, WithoutUndecodable(in))
    /\ prevStatus' = StatusesOf(store)
    /\ ingests' = ingests + 1
    /\ sc' = [other |-> 21 \in Range(in.accountKeys), decoded |-> DecodedPdas(in),
              slot |-> in.slot, pre |-> store]
    /\ UNCHANGED <<inv, page>>

DecodeNext == \E in \in DecodeInputs : DIngest(in)

SpecDecode == DecodeInit /\ [][DecodeNext]_vars

\* C25: an account whose data decodes as neither a Vault nor a Position is
\* skipped without error, and every other account of the same event, and
\* every later event, is still decoded and applied: an event that lists such
\* an account next to decodable ones leaves the store exactly as the event
\* without it would, and each decoded account has a record at least as
\* recent as the event.
C25_UndecodableSkipped ==
    (sc.other /\ sc.decoded # {}) =>
        /\ store = storeB
        /\ \A k \in sc.decoded :
              LET rec == IF k \in VaultPdas THEN store.vaultJson[k]
                         ELSE store.positionJson[k]
              IN rec # Null /\ rec.slot >= sc.slot

\* An event listed the undecodable account before the vault, and the vault's
\* record was written from that event after an earlier event had been applied.
C25_AppliedNextToUndecodable ==
    /\ ingests = 2
    /\ sc.other
    /\ sc.decoded = {1}
    /\ store.vaultJson[1] # Null
    /\ store.vaultJson[1].slot = sc.slot
    /\ prevStatus[1] # NullStr
    /\ prevStatus[1] # store.vaultJson[1].status

\* The record of an account, its membership-set entries and its entries in
\* every ordered index.
Footprint(st, k) ==
    IF k \in VaultPdas
      THEN [rec |-> st.vaultJson[k],
            sets |-> <<k \in st.vaultsSet, k \in st.authorityVaults[AuthorityOf(k)]>>,
            idx |-> VaultIndexEntries(st, AuthorityOf(k), k)]
      ELSE [rec |-> st.positionJson[k],
            sets |-> <<k \in st.ownerPositions[OwnerOf(k)]>>,
            idx |-> {e \in st.zOwnerPositions[OwnerOf(k)] : e.member = k}]

BehindStored(st, k, slot) ==
    Footprint(st, k).rec # Null /\ slot < Footprint(st, k).rec.slot

C27_OneStatusIndex ==
    (sc.phase # "run" \/ BothDone) =>
        \A p \in VaultPdas :
            store.vaultJson[p] # Null =>
                \A s \in Statuses :
                    p \in StatusIndex(store, store.vaultJson[p].authority, s)
                        => s = store.vaultJson[p].status

\* C28: every event whose logs contain a claim instruction and that is
\* acknowledged with 200 results in a stored claim activity for that
\* transaction, whether or not the position's earlier deposit event was
\* delivered before it (whether or not a position record is cached).
C28_ClaimAlwaysRecorded ==
    sc.phase = "claimed" =>
        <<sc.in.signature, "claim", sc.in.slot>> \in DOMAIN store.activity

\* The claim activities stored for position 11.
ClaimActivities(st) ==
    {k \in DOMAIN st.activity :
        st.activity[k].type = "claim" /\ st.activity[k].positionPda = 11}

\* C29: after a position has been settled by the claim-closure branch, no
\* later event with a different transaction signature settles it again or
\* creates another claim activity for it.
C29_SettledOnce ==
    (sc.phase = "reclaimed" /\ ClaimActivities(sc.pre) # {}) =>
        /\ store.positionJson[11] = sc.pre.positionJson[11]
        /\ ClaimActivities(store) = ClaimActivities(sc.pre)

\* The amount on the deposit activity of event e in store st; Null when the
\* event left no deposit activity.
DepositAmountOf(st, e) ==
    LET key == <<e.signature, "deposit", e.slot>>
    IN IF key \in DOMAIN st.activity THEN [amount |-> st.activity[key].amount] ELSE Null

\* C30: the amount recorded on the activity of a given deposit event is the
\* same whatever order the events touching that vault or position are
\* delivered in, and whether or not the event's own account update was
\* skipped as stale.
C30_DepositAmountOrderFree ==
    sc.phase = "done" =>
        \A e \in {sc.lo, sc.hi} :
            e.logMessages = <<"Instruction: Deposit">> =>
                DepositAmountOf(store, e) = DepositAmountOf(storeB, e)

\* C31: in every state reached by any sequence of deliveries and
\* redeliveries, the amount of each stored claim activity equals the claimed
\* value stored in the position record the activity refers to.
C31_ClaimAmountMatchesRecord ==
    \A k \in DOMAIN store.activity :
        LET a == store.activity[k]
        IN (a.type = "claim" /\ a.positionPda # NullNum) =>
              /\ store.positionJson[a.positionPda] # Null
              /\ a.amount = store.positionJson[a.positionPda].claimed

(***************************************************************************)
(* Walks of SpecQuery: a first page without cursor, then nextCursor        *)
(* followed until it is null.                                              *)
(***************************************************************************)
WalkDone ==
    /\ page # Null
    /\ page.path = "zset"
    /\ page.start = NullNum
    /\ page.res.nextCursor = NullNum

WalkReturned == page.seen \cup Returned(page.res, sc.family)

WalkIndex == IndexOf(store, sc.family, page.q)

\* C32: for a fixed ordered index, following nextCursor from the first page
\* until it is null returns every member of the index exactly once,
\* including when several members share the same score.
C32_WalkReturnsAll ==
    /\ (page # Null /\ page.path = "zset") =>
          Returned(page.res, sc.family) \cap page.seen = {}
    /\ WalkDone => WalkReturned = ZMembers(WalkIndex)

\* C32, amended: following nextCursor from the first page until it is null
\* returns no member twice; it returns every member of the index when no
\* two members share a score; and a member it leaves out has the score of a
\* member it returned (the cursor is an exclusive bound on the score).
C32_WalkReturnsAllButTies ==
    /\ (page # Null /\ page.path = "zset") =>
          Returned(page.res, sc.family) \cap page.seen = {}
    /\ WalkDone =>
          /\ WalkReturned \subseteq ZMembers(WalkIndex)
          /\ \A e \in WalkIndex :
                e.member \notin WalkReturned =>
                   \E g \in WalkIndex :
                      g.member \in WalkReturned /\ g.score = e.score
          /\ (\A e, f \in WalkIndex : e.member # f.member => e.score # f.score)
                => WalkReturned = ZMembers(WalkIndex)

\* A walk of more than one page came to its end having left out a member
\* that shares its score with a returned one.
C32_TieLeftOut ==
    /\ WalkDone
    /\ page.seen # {}
    /\ \E e \in WalkIndex : e.member \notin WalkReturned

\* C33: for fixed store contents, repeatedly requesting the page at the
\* returned nextCursor reaches nextCursor = null after finitely many
\* requests, both on the ordered-index path and on the membership-set
\* fallback path.
C33_WalkTerminates ==
    (page # Null) ~> (page # Null /\ page.res.nextCursor = NullNum)

\* C34: in every state reached without store failures, each member of a
\* vault (or owner) activity timeline is the key of a stored activity record
\* whose vaultPda (or owner) is that vault (or owner), and every stored
\* activity record that names a vaultPda is a member of that vault's
\* timeline.
C34_TimelinesMatchRecords ==
    /\ \A p \in VaultPdas : \A e \in store.zVaultActivity[p] :
          /\ e.member \in DOMAIN store.activity
          /\ store.activity[e.member].vaultPda = p
    /\ \A o \in Owners : \A e \in store.zOwnerActivity[o] :
          /\ e.member \in DOMAIN store.activity
          /\ store.activity[e.member].owner = o
    /\ \A k \in DOMAIN store.activity :
          store.activity[k].vaultPda # NullNum =>
             k \in ZMembers(store.zVaultActivity[store.activity[k].vaultPda])

(***************************************************************************)
(* SpecActivity: GET /api/activity.  Deposits of vault 1 and its position  *)
(* are ingested with block times that are absent, zero or positive, then   *)
(* a timeline (the vault's or the owner's) is queried.                     *)
(*   page = [q, res];  q = [vault, owner, cursor, limit], vault and owner  *)
(*   NullNum / NullStr when absent.                                        *)
(***************************************************************************)
ActivityBlockTimes == {NullNum, 0, 1, 2}

ActivityInputs ==
    UNION {
      {[signature |-> sig, slot |-> slot, blockTime |-> bt, accountKeys |-> keys,
        logMessages |-> <<"Instruction: Deposit">>, infos |-> infos, now |-> 2] :
          sig \in Signatures, slot \in Slots, bt \in ActivityBlockTimes,
          infos \in {f \in InfosFor(keys) :
                        /\ \A k \in Range(keys) : Decodable(f[k])
                        /\ f[1].data.status = "Funding"
                        /\ f[1].data.total_deposited = 2}} :
      keys \in {<<1>>, <<1, 11>>}}

ActivityQueries ==
    {[vault |-> v, owner |-> o, cursor |-> c, limit |-> l] :
        v \in {NullNum, 1}, o \in {NullStr, "O1"}, c \in QueryCursors, l \in 1..MaxLimit}

\* blockTimeEpoch ?? slot
CursorOf(activity) ==
    IF activity.blockTimeEpoch # NullNum THEN activity.blockTimeEpoch ELSE activity.slot

\* The handler after validation: exactly one of vault and owner is given.
ActivityQuery(st, q) ==
    LET zsetKey == IF q.vault # NullNum THEN kVaultActivity(q.vault)
                   ELSE kOwnerActivity(q.owner)
        activityIds == zrevrangebyscore(st, zsetKey, MaxScoreOf(q.cursor), 0, 0, q.limit + 1)
        hasMore == Len(activityIds) > q.limit
        idsToFetch == IF hasMore THEN SubSeq(activityIds, 1, q.limit) ELSE activityIds
        fetched == [i \in 1..Len(idsToFetch) |->
                      getJSON(st, [fam |-> "activity", id |-> idsToFetch[i]])]
        activities == SelectSeq(fetched, LAMBDA a : a # Null)
    IN [code |-> 200,
        items |-> activities,
        nextCursor |-> IF hasMore /\ Len(activities) > 0
                         THEN CursorOf(activities[Len(activities)]) ELSE NullNum,
        total |-> NullNum]

ActivityInit ==
    /\ store = EmptyStore
    /\ storeB = Null
    /\ ingests = 0
    /\ prevStatus = Null
    /\ sc = [phase |-> "load"]
    /\ inv = Null
    /\ page = Null

ALoad(in) ==
    /\ page = Null
    /\ ingests < MaxLoad
    /\ store' = HandleItem(store, in)
    /\ ingests' = ingests + 1
    /\ UNCHANGED <<storeB, prevStatus, sc, inv, page>>

AQuery(q) ==
    /\ page = Null
    /\ (q.vault = NullNum) # (q.owner = NullStr)
    /\ page' = [q |-> q, res |-> ActivityQuery(store, q)]
    /\ sc' = [phase |-> "query"]
    /\ UNCHANGED <<store, storeB, ingests, prevStatus, inv>>

ActivityNext ==
    \/ \E in \in ActivityInputs : ALoad(in)
    \/ \E q \in ActivityQueries : AQuery(q)

SpecActivity == ActivityInit /\ [][ActivityNext]_vars

\* The timeline a query reads.
TimelineOf(st, q) ==
    IF q.vault # NullNum THEN st.zVaultActivity[q.vault] ELSE st.zOwnerActivity[q.owner]

\* C35: for activity timelines, the nextCursor returned with a page equals
\* the ordered-index score under which the last returned activity was
\* indexed, for every value of its blockTimeEpoch (null, zero or positive).
C35_CursorIsScore ==
    (page # Null /\ page.res.nextCursor # NullNum) =>
        LET last == page.res.items[Len(page.res.items)]
        IN [member |-> last.id, score |-> page.res.nextCursor]
              \in TimelineOf(store, page.q)

\* ------------------------------------------------------------------------
\* The Redis client of lib/kv.ts: the module-level redis, connecting and
\* lastPingTime, and concurrent getClient calls that interleave at every
\* await.  sc holds the module state and the clients created so far, page
\* holds one record per caller.
\* ------------------------------------------------------------------------

MaxCallers == 3
MaxClients == 3

Callers == 1 .. MaxCallers
Clients == 1 .. MaxClients

\* redis.isOpen: true from the call of connect() until the client is closed
isOpen(g, x) == x # 0 /\ g.clients[x] \in {"connecting", "open"}

\* now - lastPingTime > PING_INTERVAL_MS
needsPing(g) == g.lastPing = "stale"

IdleCaller == [pc |-> "idle", target |-> 0, res |-> 0, resState |-> "none"]

ReturnRedis(g, rec) ==
    [rec EXCEPT !.pc = "returned", !.res = g.redis,
                !.resState = IF g.redis = 0 THEN "none" ELSE g.clients[g.redis]]

ThrowError(rec) == [rec EXCEPT !.pc = "threw"]

\* `await connecting; if (!redis) throw ...; return redis` once the promise
\* has resolved
AfterConnect(g, rec) == IF g.redis = 0 THEN ThrowError(rec) ELSE ReturnRedis(g, rec)

NewClient(g) == CHOOSE x \in Clients :
    g.clients[x] = "none" /\ \A y \in Clients : g.clients[y] = "none" => x <= y

\* lines 49-79: wait for the connection under way, or create a client,
\* register its handlers and start connecting
JoinOrCreate(g, rec) ==
    IF g.connecting # 0
    THEN [g |-> g, rec |-> [rec EXCEPT !.pc = "waiting", !.target = g.connecting]]
    ELSE LET n == NewClient(g)
         IN [g |-> [g EXCEPT !.redis = n, !.connecting = n,
                             !.clients[n] = "connecting", !.promise[n] = "pending"],
             rec |-> [rec EXCEPT !.pc = "waiting", !.target = n]]

CanJoinOrCreate(g) == g.connecting # 0 \/ \E x \in Clients : g.clients[x] = "none"

ClientInit ==
    /\ store = EmptyStore
    /\ storeB = EmptyStore
    /\ ingests = 0
    /\ prevStatus = Null
    /\ sc = [redis |-> 0, connecting |-> 0, lastPing |-> "stale",
             clients |-> [x \in Clients |-> "none"],
             promise |-> [x \in Clients |-> "none"],
             ended |-> [x \in Clients |-> FALSE]]
    /\ inv = Null
    /\ page = [c \in Callers |-> IdleCaller]

\* getClient up to its first await
GEnter(c) ==
    /\ page[c].pc = "idle"
    /\ IF isOpen(sc, sc.redis)
       THEN /\ sc' = sc
            /\ page' = [page EXCEPT ![c] =
                   IF needsPing(sc)
                   THEN [@ EXCEPT !.pc = "pinging", !.target = sc.redis]
                   ELSE ReturnRedis(sc, @)]
       ELSE /\ CanJoinOrCreate(sc)
            /\ sc' = JoinOrCreate(sc, page[c]).g
            /\ page' = [page EXCEPT ![c] = JoinOrCreate(sc, page[c]).rec]
    /\ UNCHANGED <<store, storeB, ingests, prevStatus, inv>>

\* redis.ping() resolves: lastPingTime = now; return redis
GPingOk(c) ==
    /\ page[c].pc = "pinging"
    /\ sc.clients[page[c].target] = "open"
    /\ sc' = [sc EXCEPT !.lastPing = "fresh"]
    /\ page' = [page EXCEPT ![c] = ReturnRedis(sc', @)]
    /\ UNCHANGED <<store, storeB, ingests, prevStatus, inv>>

\* redis.ping() rejects: the catch block calls redis.quit() on the client the
\* module variable names now (a TypeError when it is null)
GPingFail(c) ==
    /\ page[c].pc = "pinging"
    /\ IF sc.redis = 0
       THEN /\ sc' = sc
            /\ page' = [page EXCEPT ![c] = ThrowError(@)]
       ELSE /\ sc' = [sc EXCEPT !.clients[sc.redis] = "closed"]
            /\ page' = [page EXCEPT ![c] = [@ EXCEPT !.pc = "quitting", !.target = sc.redis]]
    /\ UNCHANGED <<store, storeB, ingests, prevStatus, inv>>

\* quit() settles: redis = null; connecting = null; lastPingTime = 0; then
\* the code falls through to lines 49-79
GQuitDone(c) ==
    /\ page[c].pc = "quitting"
    /\ LET g == [sc EXCEPT !.redis = 0, !.connecting = 0, !.lastPing = "stale"]
       IN /\ CanJoinOrCreate(g)
          /\ sc' = JoinOrCreate(g, page[c]).g
          /\ page' = [page EXCEPT ![c] = JoinOrCreate(g, page[c]).rec]
    /\ UNCHANGED <<store, storeB, ingests, prevStatus, inv>>

\* connect() of client x resolves: the then-callback runs, and every caller
\* awaiting this promise resumes
GConnectOk(x) ==
    /\ sc.promise[x] = "pending"
    /\ sc.clients[x] = "connecting"
    /\ LET g == [sc EXCEPT !.clients[x] = "open", !.promise[x] = "settled",
                           !.connecting = 0, !.lastPing = "fresh"]
       IN /\ sc' = g
          /\ page' = [c \in Callers |->
                 IF page[c].pc = "waiting" /\ page[c].target = x
                 THEN AfterConnect(g, page[c]) ELSE page[c]]
    /\ UNCHANGED <<store, storeB, ingests, prevStatus, inv>>

\* connect() of client x rejects: the catch-callback runs and rethrows
GConnectFail(x) ==
    /\ sc.promise[x] = "pending"
    /\ sc' = [sc EXCEPT !.clients[x] = "failed", !.promise[x] = "settled",
                        !.connecting = 0, !.redis = 0, !.lastPing = "stale"]
    /\ page' = [c \in Callers |->
           IF page[c].pc = "waiting" /\ page[c].target = x
           THEN ThrowError(page[c]) ELSE page[c]]
    /\ UNCHANGED <<store, storeB, ingests, prevStatus, inv>>

\* the 'end' event of client x (its connection dropped, or quit() closed
\* it): redis = null; connecting = null
GEnd(x) ==
    /\ sc.clients[x] \in {"open", "closed"}
    /\ ~sc.ended[x]
    /\ sc' = [sc EXCEPT !.clients[x] = "closed", !.ended[x] = TRUE,
                        !.redis = 0, !.connecting = 0]
    /\ UNCHANGED <<store, storeB, ingests, prevStatus, inv, page>>

\* PING_INTERVAL_MS goes by since the last verified ping
GInterval ==
    /\ sc.lastPing = "fresh"
    /\ sc' = [sc EXCEPT !.lastPing = "stale"]
    /\ UNCHANGED <<store, storeB, ingests, prevStatus, inv, page>>

ClientNext ==
    \/ \E c \in Callers : GEnter(c)
    \/ \E c \in Callers : GPingOk(c)
    \/ \E c \in Callers : GPingFail(c)
    \/ \E c \in Callers : GQuitDone(c)
    \/ \E x \in Clients : GConnectOk(x)
    \/ \E x \in Clients : GConnectFail(x)
    \/ \E x \in Clients : GEnd(x)
    \/ GInterval

SpecClient == ClientInit /\ [][ClientNext]_vars

\* C36: under any interleaving of getClient calls, failed pings and 'end'
\* events, a caller that returns receives a client, that client is connected
\* when it is returned, callers holding live clients hold the same one, and
\* every client that is open or connecting is the one the module refers to.
C36_OneLiveClient ==
    /\ \A c \in Callers : page[c].pc = "returned" =>
           page[c].res # 0 /\ page[c].resState = "open"
    /\ \A c, d \in Callers :
           (/\ page[c].pc = "returned" /\ page[d].pc = "returned"
            /\ isOpen(sc, page[c].res) /\ isOpen(sc, page[d].res))
               => page[c].res = page[d].res
    /\ \A x \in Clients : isOpen(sc, x) => sc.redis = x

\* ------------------------------------------------------------------------
\* checkRateLimit of lib/http.ts: one ordered set of call timestamps per
\* identifier, trimmed, counted, extended and given an expiry in one
\* transaction.  sc holds the clock and the rate-limit keys, inv the calls
\* made so far, page the last result.
\* ------------------------------------------------------------------------

RateLimit == 2          \* config.limit
WindowSeconds == 2      \* config.windowSeconds
MaxTime == 3
MaxCalls == 5

RateIdentifiers == {"ip:a", "ip:b"}

RATE_LIMITS == [limit |-> RateLimit, windowSeconds |-> WindowSeconds]

\* ZREMRANGEBYSCORE key min max: both ends inclusive
zRemRangeByScore(z, min, max) == {e \in z : ~(min <= e.score /\ e.score <= max)}

\* the members of a rate-limit key at a time: none once its EXPIRE has run out
RateKeyAt(rl, key, now) ==
    IF rl.expireAt[key] # NullNum /\ rl.expireAt[key] <= now THEN {} ELSE rl.zset[key]

RateAllowedUpTo(count, limit) == count <= limit

\* const allowed = count < config.limit
RateAllowed(count, limit) == count < limit

RateRemaining(count, limit) == IF limit - count - 1 > 0 THEN limit - count - 1 ELSE 0

\* the try block: the MULTI of zRemRangeByScore, zCard, zAdd and expire, and
\* the result computed from the zCard reply
checkRateLimit(rl, identifier, config, now) ==
    LET windowStart == now - config.windowSeconds
        trimmed == zRemRangeByScore(RateKeyAt(rl, identifier, now), 0, windowStart)
        count == Cardinality(trimmed)
    IN [rl |-> [rl EXCEPT !.zset[identifier] =
                              trimmed \cup {[score |-> now, member |-> rl.random]},
                          !.expireAt[identifier] = now + config.windowSeconds,
                          !.random = @ + 1],
        result |-> [allowed |-> RateAllowed(count, config.limit),
                    remaining |-> RateRemaining(count, config.limit),
                    resetAt |-> now + config.windowSeconds]]

\* the catch block
checkRateLimitFailed(config, now) ==
    [allowed |-> TRUE, remaining |-> config.limit, resetAt |-> now + config.windowSeconds]

LimitInit ==
    /\ store = EmptyStore
    /\ storeB = EmptyStore
    /\ ingests = 0
    /\ prevStatus = Null
    /\ sc = [now |-> 0,
             zset |-> [k \in RateIdentifiers |-> {}],
             expireAt |-> [k \in RateIdentifiers |-> NullNum],
             random |-> 1]
    /\ inv = <<>>
    /\ page = Null

\* a call whose transaction is executed
LCheck(identifier) ==
    /\ Len(inv) < MaxCalls
    /\ LET r == checkRateLimit(sc, identifier, RATE_LIMITS, sc.now)
       IN /\ sc' = r.rl
          /\ page' = r.result
          /\ inv' = Append(inv, [identifier |-> identifier, now |-> sc.now,
                                 failed |-> FALSE, member |-> sc.random,
                                 allowed |-> r.result.allowed])
    /\ UNCHANGED <<store, storeB, ingests, prevStatus>>

\* a call whose getClient or exec throws
LCheckFails(identifier) ==
    /\ Len(inv) < MaxCalls
    /\ page' = checkRateLimitFailed(RATE_LIMITS, sc.now)
    /\ inv' = Append(inv, [identifier |-> identifier, now |-> sc.now,
                           failed |-> TRUE, member |-> 0,
                           allowed |-> page'.allowed])
    /\ UNCHANGED <<store, storeB, ingests, prevStatus, sc>>

\* a second goes by
LTick ==
    /\ sc.now < MaxTime
    /\ sc' = [sc EXCEPT !.now = @ + 1]
    /\ UNCHANGED <<store, storeB, ingests, prevStatus, inv, page>>

LimitNext ==
    \/ \E identifier \in RateIdentifiers : LCheck(identifier)
    \/ \E identifier \in RateIdentifiers : LCheckFails(identifier)
    \/ LTick

SpecLimit == LimitInit /\ [][LimitNext]_vars

\* the earlier calls of the same identifier that were recorded less than
\* windowSeconds before call i
RecordedBefore(i) ==
    {j \in 1 .. (i - 1) :
        /\ inv[j].identifier = inv[i].identifier
        /\ ~inv[j].failed
        /\ inv[j].now > inv[i].now - WindowSeconds}

\* C37: every call whose store operation succeeds is recorded, denied or not;
\* it is allowed exactly when fewer than limit earlier calls of its identifier
\* were recorded within the preceding window; a call whose store operation
\* fails is allowed.
C37_SlidingWindow ==
    \A i \in 1 .. Len(inv) :
        /\ inv[i].failed => inv[i].allowed
        /\ ~inv[i].failed =>
               (inv[i].allowed <=> Cardinality(RecordedBefore(i)) < RateLimit)
        /\ (~inv[i].failed /\ inv[i].now > sc.now - WindowSeconds) =>
               [score |-> inv[i].now, member |-> inv[i].member]
                   \in RateKeyAt(sc, inv[i].identifier, sc.now)

\* a denied call is recorded, and a later call of the same identifier is
\* denied only because the denied one is counted
C37_DeniedAndRecorded ==
    \E i \in 1 .. Len(inv) : \E j \in 1 .. Len(inv) :
        /\ i < j
        /\ ~inv[i].failed /\ ~inv[i].allowed
        /\ ~inv[j].failed /\ ~inv[j].allowed
        /\ i \in RecordedBefore(j)
        /\ Cardinality(RecordedBefore(j) \ {i}) < RateLimit

====
